---- MODULE Spec2Model ----
(***************************************************************************)
(* Shortest-path engine of victorvcruz/shortpath: the three search         *)
(* algorithms (api/app/algorithms/{dijkstra,bfs,astar}.py) over a Graph    *)
(* value (api/app/models/graph.py), producing a PathResult                 *)
(* (api/app/models/path.py), and the AlgorithmFactory that selects,        *)
(* validates, recommends and benchmarks them                               *)
(* (api/app/algorithms/factory.py).                                        *)
(*                                                                         *)
(* Node identifiers are strings in the program; here they are the numbers  *)
(* 1..n, ordered as the strings are ordered (the heap compares tuples, so  *)
(* the node name is the last tie-breaker).  Edge weights are floats in the *)
(* program; here they are positive integers, on which float addition and   *)
(* comparison are exact.  float('inf') is the value Inf, compared by       *)
(* FloatLess.  Wall-clock timing (execution_time_ms) is left out.          *)
(***************************************************************************)
EXTENDS Integers, Sequences, FiniteSets, TLC

VARIABLES graph, algorithm, adjacency_list, node_coordinates,
          pc, source, target, include_visited, st, result, calls

\* graph .. node_coordinates: the instance (self.graph, its class,
\* self.adjacency_list, self.node_coordinates); pc .. result: the call in
\* progress and its locals; calls: the calls in progress when several run on
\* the instance at once, each with its own locals
vars == <<graph, algorithm, adjacency_list, node_coordinates,
          pc, source, target, include_visited, st, result, calls>>

----------------------------------------------------------------------------
(* Bounds of the explored inputs *)

\* edge-list family: every edge list of at most MaxEdges edges over NumNodes
\* nodes with weights 1..MaxWeight (self-loops, parallel edges, any order)
NumNodes == 3
MaxEdges == 2
MaxWeight == 2
\* weight-table family: simple graphs on TableNodes nodes, every pair i < j
\* absent, of weight 1, or of weight HeavyWeight
TableNodes == 4
HeavyWeight == 4
\* node coordinates: the points (0, 0) .. (MaxCoord, 0), between which the
\* Euclidean distance is a whole number
MaxCoord == 1
\* the number of calls in progress at once on one instance
NumCalls == 2
\* selector graphs: the MaxDeviation floats next below and next above 1.0
MaxDeviation == 3

----------------------------------------------------------------------------
(* Values *)

\* Python's None (previous[node], visited_nodes)
None == 0
\* float('inf'); every finite distance of the model is >= 0
Inf == 0 - 1

\* a < b on floats that may be float('inf')
FloatLess(a, b) == a # Inf /\ (b = Inf \/ a < b)

\* a + b on floats that may be float('inf')
FloatAdd(a, b) == IF a = Inf \/ b = Inf THEN Inf ELSE a + b

\* abs(x)
abs(x) == IF x < 0 THEN 0 - x ELSE x

\* The tolerance 1e-9 of the weight tests is 1.0 / ToleranceInverse.  The
\* tests take `one', the number that stands for the float 1.0 in the unit
\* the weights of the graph are counted in: 1 for the whole weights of the
\* searches, FineOne for the weights next to 1.0 of the selector graphs.
ToleranceInverse == 1000000000

\* The weights of the selector graphs are floats next to 1.0, counted in the
\* spacing of the floats just below 1.0 (just above 1.0 the spacing is two
\* units).  For the doubles this unit is 2^-53 and 1e-9 is
\* 4835703278458517 / 2^29 units, between 9007199 and 9007200 units: no
\* double differs from 1.0 by 1e-9 exactly.  The model keeps the binary grid
\* with the unit 2^-30, in which 1.0 is FineOne and 1e-9 lies between one
\* unit and two; FineTolerance is the largest number of units below 1e-9.
FineOne == 1073741824
FineTolerance == FineOne \div ToleranceInverse

\* d < 1e-9, for a difference d >= 0 of two weights
BelowTolerance(d, one) == d <= (one - 1) \div ToleranceInverse

\* d > 1e-9, for a difference d >= 0 of two weights
AboveTolerance(d, one) == d > one \div ToleranceInverse

DIJKSTRA == "dijkstra"
BFS == "bfs"
ASTAR == "astar"
AlgorithmType == {DIJKSTRA, BFS, ASTAR}

\* Edge(from_node, to_node, weight)
Edge(a, b, w) == [from_node |-> a, to_node |-> b, weight |-> w]

\* Graph(directed, nodes, edges); id, timestamps and metadata play no part
\* in a search
Graph(d, ns, es) == [directed |-> d, nodes |-> ns, edges |-> es]

NodeSet(g) == {g.nodes[i] : i \in 1..Len(g.nodes)}

\* the ValidationError the constructor of a pydantic model raises when a
\* validator of a field raises ValueError
ValidationError == [raised |-> "ValidationError"]

\* the fields of PathResult in the order of their declaration, which is the
\* order in which they are validated (execution_time_ms is left out)
PathResultFields ==
    <<"path", "distance", "algorithm_used", "visited_nodes_count",
      "visited_nodes", "exists">>

\* @validator('distance'); values holds the fields validated before this one
validate_distance(v, values) ==
    IF "exists" \in DOMAIN values /\ ~values.exists
    THEN [raised |-> FALSE, value |-> Inf]
    ELSE [raised |-> FALSE, value |-> v]

\* @validator('path'); values holds the fields validated before this one
validate_path_consistency(v, values) ==
    IF "exists" \in DOMAIN values
    THEN IF values.exists /\ v = <<>> THEN [raised |-> TRUE, value |-> v]
         ELSE IF ~values.exists /\ v # <<>> THEN [raised |-> TRUE, value |-> v]
         ELSE [raised |-> FALSE, value |-> v]
    ELSE [raised |-> FALSE, value |-> v]

\* the validators of one field (the arguments of the model are of the
\* declared types, so the type checks of the fields pass)
PathResult_validator(field, v, values) ==
    IF field = "distance" THEN validate_distance(v, values)
    ELSE IF field = "path" THEN validate_path_consistency(v, values)
    ELSE [raised |-> FALSE, value |-> v]

\* the validation of the fields from the i-th on: a field whose validator
\* raises is recorded as an error and is not added to values
RECURSIVE PathResult_validate(_, _, _, _)
PathResult_validate(data, i, values, errors) ==
    IF i > Len(PathResultFields)
    THEN IF errors THEN ValidationError ELSE values
    ELSE LET field == PathResultFields[i]
             r == PathResult_validator(field, data[field], values)
         IN  IF r.raised THEN PathResult_validate(data, i + 1, values, TRUE)
             ELSE PathResult_validate(data, i + 1,
                                      (field :> r.value) @@ values, errors)

\* PathResult(...): exists is declared after path and distance, so it is not
\* yet in values when their validators run
PathResult(path, distance, algorithm_used, visited_nodes_count, visited_nodes, exists) ==
    PathResult_validate(
        [path |-> path, distance |-> distance, algorithm_used |-> algorithm_used,
         visited_nodes_count |-> visited_nodes_count,
         visited_nodes |-> visited_nodes, exists |-> exists],
        1, <<>>, FALSE)

\* visited_nodes = None
NoVisitedNodes == <<None>>

\* the KeyError a dict lookup raises on a key the dict does not have; no
\* search method catches it, so the call ends with it
KeyError == [raised |-> "KeyError"]

----------------------------------------------------------------------------
(* Sequence helpers *)

RemoveAt(s, i) == SubSeq(s, 1, i - 1) \o SubSeq(s, i + 1, Len(s))

RECURSIVE Reverse(_)
Reverse(s) == IF s = <<>> THEN <<>> ELSE Append(Reverse(Tail(s)), Head(s))

\* tuple comparison of Python: lexicographic, on tuples of equal length
RECURSIVE TupleLess(_, _)
TupleLess(a, b) ==
    IF a = <<>> THEN FALSE
    ELSE IF Head(a) # Head(b) THEN Head(a) < Head(b)
    ELSE TupleLess(Tail(a), Tail(b))

\* heapq.heappop returns the smallest entry; the heap is kept here as the
\* list of its entries and HeapMinIndex is the position of the smallest
HeapMinIndex(h) ==
    CHOOSE i \in 1..Len(h) :
        \A j \in 1..Len(h) : j # i => (TupleLess(h[i], h[j]) \/ (h[i] = h[j] /\ i < j))

\* heappop taking the entry pushed first instead of the smallest
heappop_first(h) == [item |-> h[1], heap |-> Tail(h)]

heappop(h) == [item |-> h[HeapMinIndex(h)], heap |-> RemoveAt(h, HeapMinIndex(h))]

heappush(h, item) == Append(h, item)

----------------------------------------------------------------------------
(* DijkstraAlgorithm *)

\* _build_adjacency_list: the loop over graph.edges, from edge i on
RECURSIVE Dijkstra_adj_loop(_, _, _)
Dijkstra_adj_loop(g, i, adj_list) ==
    IF i > Len(g.edges) THEN adj_list
    ELSE LET edge == g.edges[i]
             a1 == [adj_list EXCEPT ![edge.from_node] =
                        Append(@, <<edge.to_node, edge.weight>>)]
             a2 == IF ~g.directed
                   THEN [a1 EXCEPT ![edge.to_node] =
                            Append(@, <<edge.from_node, edge.weight>>)]
                   ELSE a1
         IN  Dijkstra_adj_loop(g, i + 1, a2)

Dijkstra_build_adjacency_list(g) ==
    Dijkstra_adj_loop(g, 1, [node \in NodeSet(g) |-> <<>>])

\* find_shortest_path, up to the while loop
\* (distances[source] = 0 adds the key when the source is not a graph node)
Dijkstra_start(g, src) ==
    [distances     |-> [node \in NodeSet(g) \cup {src} |->
                           IF node = src THEN 0 ELSE Inf],
     previous      |-> [node \in NodeSet(g) |-> None],
     visited       |-> {},
     visited_order |-> <<>>,
     pq            |-> << <<0, src>> >>,
     broke         |-> FALSE,
     raised        |-> FALSE]

\* Dijkstra_relax without the test new_distance < distances[neighbor]
Dijkstra_relax_untested(s, current_dist, current_node, neighbor, weight) ==
    IF neighbor \in s.visited THEN s
    ELSE LET new_distance == current_dist + weight
         IN  [s EXCEPT !.distances[neighbor] = new_distance,
                       !.previous[neighbor] = current_node,
                       !.pq = heappush(@, <<new_distance, neighbor>>)]

\* the relaxation of one (neighbor, weight) entry of the settled node
Dijkstra_relax(s, current_dist, current_node, neighbor, weight) ==
    IF neighbor \in s.visited THEN s
    ELSE LET new_distance == current_dist + weight
         IN  IF FloatLess(new_distance, s.distances[neighbor])
             THEN [s EXCEPT !.distances[neighbor] = new_distance,
                            !.previous[neighbor] = current_node,
                            !.pq = heappush(@, <<new_distance, neighbor>>)]
             ELSE s

\* the for loop over adjacency_list[current_node], from entry i on
RECURSIVE Dijkstra_neighbors(_, _, _, _, _)
Dijkstra_neighbors(s, adj, current_dist, current_node, i) ==
    IF i > Len(adj[current_node]) THEN s
    ELSE Dijkstra_neighbors(
             Dijkstra_relax(s, current_dist, current_node,
                            adj[current_node][i][1], adj[current_node][i][2]),
             adj, current_dist, current_node, i + 1)

\* Dijkstra_iteration without the break at the target
Dijkstra_iteration_no_break(s, adj, tgt, iv) ==
    LET popped       == heappop(s.pq)
        current_dist == popped.item[1]
        current_node == popped.item[2]
        s1 == [s EXCEPT !.pq = popped.heap]
    IN  IF current_node \in s1.visited THEN s1
        ELSE LET s2 == [s1 EXCEPT !.visited = @ \cup {current_node},
                                  !.visited_order =
                                      IF iv THEN Append(@, current_node) ELSE @]
             IN  IF current_node \notin DOMAIN adj THEN [s2 EXCEPT !.raised = TRUE]
                 ELSE Dijkstra_neighbors(s2, adj, current_dist, current_node, 1)

\* Dijkstra_iteration reading the smallest entry without removing it when
\* its node is settled
Dijkstra_iteration_peek(s, adj, tgt, iv) ==
    LET popped       == heappop(s.pq)
        current_dist == popped.item[1]
        current_node == popped.item[2]
        s1 == [s EXCEPT !.pq = popped.heap]
    IN  IF current_node \in s.visited THEN s
        ELSE LET s2 == [s1 EXCEPT !.visited = @ \cup {current_node},
                                  !.visited_order =
                                      IF iv THEN Append(@, current_node) ELSE @]
             IN  IF current_node = tgt THEN [s2 EXCEPT !.broke = TRUE]
                 ELSE IF current_node \notin DOMAIN adj
                 THEN [s2 EXCEPT !.raised = TRUE]
                 ELSE Dijkstra_neighbors(s2, adj, current_dist, current_node, 1)

\* one iteration of the while loop of find_shortest_path;
\* self.adjacency_list[current_node] raises KeyError when the node popped is
\* not a graph node
Dijkstra_iteration(s, adj, tgt, iv) ==
    LET popped       == heappop(s.pq)
        current_dist == popped.item[1]
        current_node == popped.item[2]
        s1 == [s EXCEPT !.pq = popped.heap]
    IN  IF current_node \in s1.visited THEN s1
        ELSE LET s2 == [s1 EXCEPT !.visited = @ \cup {current_node},
                                  !.visited_order =
                                      IF iv THEN Append(@, current_node) ELSE @]
             IN  IF current_node = tgt THEN [s2 EXCEPT !.broke = TRUE]
                 ELSE IF current_node \notin DOMAIN adj
                 THEN [s2 EXCEPT !.raised = TRUE]
                 ELSE Dijkstra_neighbors(s2, adj, current_dist, current_node, 1)

\* the walk over previous from the target (path before path.reverse())
RECURSIVE WalkPrevious(_, _)
WalkPrevious(previous, current) ==
    IF current = None THEN <<>>
    ELSE <<current>> \o WalkPrevious(previous, previous[current])

\* the walk reads previous[current] for a node that is not a key of previous
RECURSIVE WalkRaises(_, _)
WalkRaises(previous, current) ==
    IF current = None THEN FALSE
    ELSE IF current \notin DOMAIN previous THEN TRUE
    ELSE WalkRaises(previous, previous[current])

\* Dijkstra_finish without path.reverse()
Dijkstra_finish_unreversed(s, tgt, iv) ==
    IF tgt \notin DOMAIN s.distances THEN KeyError
    ELSE LET path_exists == s.distances[tgt] # Inf
             path == IF path_exists THEN WalkPrevious(s.previous, tgt) ELSE <<>>
         IN  IF path_exists /\ WalkRaises(s.previous, tgt) THEN KeyError
             ELSE PathResult(path, s.distances[tgt], DIJKSTRA,
                             Cardinality(s.visited),
                             IF iv THEN s.visited_order ELSE NoVisitedNodes,
                             path_exists)

\* find_shortest_path, after the while loop; distances[target] raises
\* KeyError when the target is not a key, previous[current] when the walk
\* comes to a node that is not a graph node
Dijkstra_finish(s, tgt, iv) ==
    IF tgt \notin DOMAIN s.distances THEN KeyError
    ELSE LET path_exists == s.distances[tgt] # Inf
             path == IF path_exists THEN Reverse(WalkPrevious(s.previous, tgt))
                     ELSE <<>>
         IN  IF path_exists /\ WalkRaises(s.previous, tgt) THEN KeyError
             ELSE PathResult(path, s.distances[tgt], DIJKSTRA,
                             Cardinality(s.visited),
                             IF iv THEN s.visited_order ELSE NoVisitedNodes,
                             path_exists)

\* find_shortest_path as a whole
RECURSIVE Dijkstra_while(_, _, _, _)
Dijkstra_while(s, adj, tgt, iv) ==
    IF s.pq = <<>> \/ s.broke \/ s.raised THEN s
    ELSE Dijkstra_while(Dijkstra_iteration(s, adj, tgt, iv), adj, tgt, iv)

Dijkstra_find_shortest_path(g, adj, src, tgt, iv) ==
    LET s == Dijkstra_while(Dijkstra_start(g, src), adj, tgt, iv)
    IN  IF s.raised THEN KeyError ELSE Dijkstra_finish(s, tgt, iv)

\* find_all_shortest_paths, up to the while loop
Dijkstra_all_start(g, src) ==
    [distances |-> [node \in NodeSet(g) \cup {src} |->
                       IF node = src THEN 0 ELSE Inf],
     visited   |-> {},
     pq        |-> << <<0, src>> >>,
     raised    |-> FALSE]

\* find_all_shortest_paths: the relaxation of one (neighbor, weight) entry
Dijkstra_all_relax(s, current_dist, neighbor, weight) ==
    IF neighbor \in s.visited THEN s
    ELSE LET new_distance == current_dist + weight
         IN  IF FloatLess(new_distance, s.distances[neighbor])
             THEN [s EXCEPT !.distances[neighbor] = new_distance,
                            !.pq = heappush(@, <<new_distance, neighbor>>)]
             ELSE s

\* find_all_shortest_paths: the for loop over adjacency_list[current_node]
RECURSIVE Dijkstra_all_neighbors(_, _, _, _, _)
Dijkstra_all_neighbors(s, adj, current_dist, current_node, i) ==
    IF i > Len(adj[current_node]) THEN s
    ELSE Dijkstra_all_neighbors(
             Dijkstra_all_relax(s, current_dist,
                                adj[current_node][i][1], adj[current_node][i][2]),
             adj, current_dist, current_node, i + 1)

\* find_all_shortest_paths: one iteration of the while loop
Dijkstra_all_iteration(s, adj) ==
    LET popped       == heappop(s.pq)
        current_dist == popped.item[1]
        current_node == popped.item[2]
        s1 == [s EXCEPT !.pq = popped.heap]
    IN  IF current_node \in s1.visited THEN s1
        ELSE LET s2 == [s1 EXCEPT !.visited = @ \cup {current_node}]
             IN  IF current_node \notin DOMAIN adj THEN [s2 EXCEPT !.raised = TRUE]
                 ELSE Dijkstra_all_neighbors(s2, adj, current_dist, current_node, 1)

RECURSIVE Dijkstra_all_while(_, _)
Dijkstra_all_while(s, adj) ==
    IF s.pq = <<>> \/ s.raised THEN s
    ELSE Dijkstra_all_while(Dijkstra_all_iteration(s, adj), adj)

\* find_all_shortest_paths as a whole: it returns distances
Dijkstra_find_all_shortest_paths(g, adj, src) ==
    LET s == Dijkstra_all_while(Dijkstra_all_start(g, src), adj)
    IN  IF s.raised THEN KeyError ELSE s.distances

----------------------------------------------------------------------------
(* BFSAlgorithm *)

RECURSIVE BFS_adj_loop(_, _, _)
BFS_adj_loop(g, i, adj_list) ==
    IF i > Len(g.edges) THEN adj_list
    ELSE LET edge == g.edges[i]
             a1 == [adj_list EXCEPT ![edge.from_node] = Append(@, edge.to_node)]
             a2 == IF ~g.directed
                   THEN [a1 EXCEPT ![edge.to_node] = Append(@, edge.from_node)]
                   ELSE a1
         IN  BFS_adj_loop(g, i + 1, a2)

\* BFS_build_adjacency_list adding the reverse entry whatever graph.directed is
BFS_build_adjacency_list_both(g) ==
    BFS_adj_loop([g EXCEPT !.directed = FALSE], 1, [node \in NodeSet(g) |-> <<>>])

BFS_build_adjacency_list(g) ==
    BFS_adj_loop(g, 1, [node \in NodeSet(g) |-> <<>>])

\* the result of the source == target branch
BFS_trivial(src, iv) ==
    PathResult(<<src>>, 0, BFS, 1, IF iv THEN <<src>> ELSE NoVisitedNodes, TRUE)

\* BFS_start counting the source as one hop
BFS_start_one(src, iv) ==
    [queue         |-> <<src>>,
     visited       |-> {src},
     previous      |-> (src :> None),
     distances     |-> (src :> 1),
     visited_order |-> IF iv THEN <<src>> ELSE <<>>,
     path_found    |-> FALSE,
     raised        |-> FALSE]

\* BFS_start leaving the source out of visited_order
BFS_start_unlisted(src, iv) ==
    [queue         |-> <<src>>,
     visited       |-> {src},
     previous      |-> (src :> None),
     distances     |-> (src :> 0),
     visited_order |-> <<>>,
     path_found    |-> FALSE,
     raised        |-> FALSE]

\* find_shortest_path, from the source == target branch up to the while loop
BFS_start(src, iv) ==
    [queue         |-> <<src>>,
     visited       |-> {src},
     previous      |-> (src :> None),
     distances     |-> (src :> 0),
     visited_order |-> IF iv THEN <<src>> ELSE <<>>,
     path_found    |-> FALSE,
     raised        |-> FALSE]

\* BFS_neighbors with the test for the target inside `if include_visited:`
RECURSIVE BFS_neighbors_flagged(_, _, _, _, _, _)
BFS_neighbors_flagged(s, adj, current_node, tgt, iv, i) ==
    IF i > Len(adj[current_node]) THEN s
    ELSE LET neighbor == adj[current_node][i]
         IN  IF neighbor \notin s.visited
             THEN LET s1 == [s EXCEPT
                                !.visited = @ \cup {neighbor},
                                !.previous = (neighbor :> current_node) @@ @,
                                !.distances =
                                    (neighbor :> s.distances[current_node] + 1) @@ @,
                                !.queue = Append(@, neighbor),
                                !.visited_order =
                                    IF iv THEN Append(@, neighbor) ELSE @]
                  IN  IF iv /\ neighbor = tgt THEN [s1 EXCEPT !.path_found = TRUE]
                      ELSE BFS_neighbors_flagged(s1, adj, current_node, tgt, iv, i + 1)
             ELSE BFS_neighbors_flagged(s, adj, current_node, tgt, iv, i + 1)

\* BFS_neighbors without the break: the for loop goes on after the target
RECURSIVE BFS_neighbors_no_break(_, _, _, _, _, _)
BFS_neighbors_no_break(s, adj, current_node, tgt, iv, i) ==
    IF i > Len(adj[current_node]) THEN s
    ELSE LET neighbor == adj[current_node][i]
         IN  IF neighbor \notin s.visited
             THEN LET s1 == [s EXCEPT
                                !.visited = @ \cup {neighbor},
                                !.previous = (neighbor :> current_node) @@ @,
                                !.distances =
                                    (neighbor :> s.distances[current_node] + 1) @@ @,
                                !.queue = Append(@, neighbor),
                                !.visited_order =
                                    IF iv THEN Append(@, neighbor) ELSE @,
                                !.path_found = @ \/ neighbor = tgt]
                  IN  BFS_neighbors_no_break(s1, adj, current_node, tgt, iv, i + 1)
             ELSE BFS_neighbors_no_break(s, adj, current_node, tgt, iv, i + 1)

\* the for loop over adjacency_list[current_node], from entry i on; it is
\* left by the break when the target is reached
RECURSIVE BFS_neighbors(_, _, _, _, _, _)
BFS_neighbors(s, adj, current_node, tgt, iv, i) ==
    IF i > Len(adj[current_node]) THEN s
    ELSE LET neighbor == adj[current_node][i]
         IN  IF neighbor \notin s.visited
             THEN LET s1 == [s EXCEPT
                                !.visited = @ \cup {neighbor},
                                !.previous = (neighbor :> current_node) @@ @,
                                !.distances =
                                    (neighbor :> s.distances[current_node] + 1) @@ @,
                                !.queue = Append(@, neighbor),
                                !.visited_order =
                                    IF iv THEN Append(@, neighbor) ELSE @]
                  IN  IF neighbor = tgt THEN [s1 EXCEPT !.path_found = TRUE]
                      ELSE BFS_neighbors(s1, adj, current_node, tgt, iv, i + 1)
             ELSE BFS_neighbors(s, adj, current_node, tgt, iv, i + 1)

\* one iteration of the while loop of find_shortest_path;
\* self.adjacency_list[current_node] raises KeyError when the node dequeued
\* is not a graph node
BFS_iteration(s, adj, tgt, iv) ==
    LET current_node == Head(s.queue)
        s1 == [s EXCEPT !.queue = Tail(@)]
    IN  IF current_node \notin DOMAIN adj THEN [s1 EXCEPT !.raised = TRUE]
        ELSE BFS_neighbors(s1, adj, current_node, tgt, iv, 1)

\* BFS_finish reporting the number of nodes of the path as the distance
BFS_finish_len(s, tgt, iv) ==
    LET path_exists == tgt \in s.visited
        path == IF path_exists THEN Reverse(WalkPrevious(s.previous, tgt)) ELSE <<>>
        distance == IF tgt \in DOMAIN s.distances THEN Len(path) ELSE Inf
    IN  PathResult(path, distance, BFS, Cardinality(s.visited),
                   IF iv THEN s.visited_order ELSE NoVisitedNodes, path_exists)

\* find_shortest_path, after the while loop
BFS_finish(s, tgt, iv) ==
    LET path_exists == tgt \in s.visited
        path == IF path_exists THEN Reverse(WalkPrevious(s.previous, tgt)) ELSE <<>>
        distance == IF tgt \in DOMAIN s.distances THEN s.distances[tgt] ELSE Inf
    IN  PathResult(path, distance, BFS, Cardinality(s.visited),
                   IF iv THEN s.visited_order ELSE NoVisitedNodes, path_exists)

RECURSIVE BFS_while(_, _, _, _)
BFS_while(s, adj, tgt, iv) ==
    IF s.queue = <<>> \/ s.path_found \/ s.raised THEN s
    ELSE BFS_while(BFS_iteration(s, adj, tgt, iv), adj, tgt, iv)

BFS_find_shortest_path(adj, src, tgt, iv) ==
    IF src = tgt THEN BFS_trivial(src, iv)
    ELSE LET s == BFS_while(BFS_start(src, iv), adj, tgt, iv)
         IN  IF s.raised THEN KeyError ELSE BFS_finish(s, tgt, iv)

\* find_all_shortest_paths, up to the while loop
BFS_all_start(src) ==
    [queue     |-> <<src>>,
     visited   |-> {src},
     distances |-> (src :> 0),
     raised    |-> FALSE]

\* find_all_shortest_paths: the for loop over adjacency_list[current_node]
RECURSIVE BFS_all_neighbors(_, _, _, _)
BFS_all_neighbors(s, adj, current_node, i) ==
    IF i > Len(adj[current_node]) THEN s
    ELSE LET neighbor == adj[current_node][i]
         IN  BFS_all_neighbors(
                 IF neighbor \notin s.visited
                 THEN [s EXCEPT !.visited = @ \cup {neighbor},
                                !.distances =
                                    (neighbor :> s.distances[current_node] + 1) @@ @,
                                !.queue = Append(@, neighbor)]
                 ELSE s,
                 adj, current_node, i + 1)

\* find_all_shortest_paths: one iteration of the while loop
BFS_all_iteration(s, adj) ==
    LET current_node == Head(s.queue)
        s1 == [s EXCEPT !.queue = Tail(@)]
    IN  IF current_node \notin DOMAIN adj THEN [s1 EXCEPT !.raised = TRUE]
        ELSE BFS_all_neighbors(s1, adj, current_node, 1)

RECURSIVE BFS_all_while(_, _)
BFS_all_while(s, adj) ==
    IF s.queue = <<>> \/ s.raised THEN s
    ELSE BFS_all_while(BFS_all_iteration(s, adj), adj)

\* BFS_all_finish returning the distances of the nodes reached only
BFS_all_finish_reached(g, s) == s.distances

\* find_all_shortest_paths, after the while loop: all_distances
BFS_all_finish(g, s) ==
    [node \in NodeSet(g) |->
        IF node \in DOMAIN s.distances THEN s.distances[node] ELSE Inf]

\* find_all_shortest_paths as a whole
BFS_find_all_shortest_paths(g, adj, src) ==
    LET s == BFS_all_while(BFS_all_start(src), adj)
    IN  IF s.raised THEN KeyError ELSE BFS_all_finish(g, s)

\* is_graph_suitable_for_bfs comparing the weights with 1.0 for equality
BFS_is_graph_suitable_for_bfs_exact(g, one) ==
    \A i \in 1..Len(g.edges) : g.edges[i].weight = one

\* is_graph_suitable_for_bfs
BFS_is_graph_suitable_for_bfs(g, one) ==
    \A i \in 1..Len(g.edges) :
        ~AboveTolerance(abs(g.edges[i].weight - one), one)

\* get_connected_components: the for loop over adjacency_list[current_node],
\* from entry i on; c holds the locals of the search from one start node
RECURSIVE BFS_component_neighbors(_, _, _, _)
BFS_component_neighbors(c, adj, current_node, i) ==
    IF i > Len(adj[current_node]) THEN c
    ELSE LET neighbor == adj[current_node][i]
         IN  BFS_component_neighbors(
                 IF neighbor \notin c.visited_local
                 THEN [c EXCEPT !.visited_local = @ \cup {neighbor},
                                !.queue = Append(@, neighbor)]
                 ELSE c,
                 adj, current_node, i + 1)

\* get_connected_components: the while loop of the search from one start node
RECURSIVE BFS_component_while(_, _)
BFS_component_while(c, adj) ==
    IF c.queue = <<>> THEN c
    ELSE LET current_node == Head(c.queue)
         IN  BFS_component_while(
                 BFS_component_neighbors(
                     [c EXCEPT !.queue = Tail(@),
                               !.component = @ \cup {current_node},
                               !.visited_global = @ \cup {current_node}],
                     adj, current_node, 1),
                 adj)

\* get_connected_components: the loop over graph.nodes, from node i on
RECURSIVE BFS_components_loop(_, _, _, _, _)
BFS_components_loop(g, adj, i, visited_global, components) ==
    IF i > Len(g.nodes) THEN components
    ELSE LET start_node == g.nodes[i]
         IN  IF start_node \notin visited_global
             THEN LET c == BFS_component_while(
                               [component      |-> {},
                                queue          |-> <<start_node>>,
                                visited_local  |-> {start_node},
                                visited_global |-> visited_global],
                               adj)
                  IN  BFS_components_loop(g, adj, i + 1, c.visited_global,
                                          Append(components, c.component))
             ELSE BFS_components_loop(g, adj, i + 1, visited_global, components)

\* get_connected_components: the list of the components found
BFS_get_connected_components(g, adj) == BFS_components_loop(g, adj, 1, {}, <<>>)

----------------------------------------------------------------------------
(* AStarAlgorithm *)

RECURSIVE AStar_adj_loop(_, _, _)
AStar_adj_loop(g, i, adj_list) ==
    IF i > Len(g.edges) THEN adj_list
    ELSE LET edge == g.edges[i]
             a1 == [adj_list EXCEPT ![edge.from_node] =
                        Append(@, <<edge.to_node, edge.weight>>)]
             a2 == IF ~g.directed
                   THEN [a1 EXCEPT ![edge.to_node] =
                            Append(@, <<edge.from_node, edge.weight>>)]
                   ELSE a1
         IN  AStar_adj_loop(g, i + 1, a2)

\* AStar_build_adjacency_list giving a key only to the nodes that have an edge
AStar_build_adjacency_list_sparse(g) ==
    AStar_adj_loop(g, 1,
        [node \in {n \in NodeSet(g) :
                      \E i \in 1..Len(g.edges) :
                          \/ g.edges[i].from_node = n
                          \/ (~g.directed /\ g.edges[i].to_node = n)} |-> <<>>])

AStar_build_adjacency_list(g) ==
    AStar_adj_loop(g, 1, [node \in NodeSet(g) |-> <<>>])

\* _extract_coordinates: every node at (0.0, 0.0)
AStar_extract_coordinates(g) == [node_id \in NodeSet(g) |-> <<0, 0>>]

\* math.sqrt on the integers: the largest r with r * r <= n (exact on
\* perfect squares)
RECURSIVE SqrtFrom(_, _)
SqrtFrom(n, r) == IF (r + 1) * (r + 1) > n THEN r ELSE SqrtFrom(n, r + 1)

sqrt(n) == SqrtFrom(n, 0)

\* _euclidean_distance, with node_coordinates.get(node, (0.0, 0.0))
AStar_euclidean_distance(coords, node1, node2) ==
    LET c1 == IF node1 \in DOMAIN coords THEN coords[node1] ELSE <<0, 0>>
        c2 == IF node2 \in DOMAIN coords THEN coords[node2] ELSE <<0, 0>>
    IN  sqrt((c2[1] - c1[1]) * (c2[1] - c1[1]) + (c2[2] - c1[2]) * (c2[2] - c1[2]))

\* the result of the source == target branch
AStar_trivial(src, iv) ==
    PathResult(<<src>>, 0, ASTAR, 1, IF iv THEN <<src>> ELSE NoVisitedNodes, TRUE)

\* find_shortest_path, from the source == target branch up to the while loop
\* (g_score[source] = 0 adds the key when the source is not a graph node)
AStar_start(g, coords, src, tgt) ==
    LET h == AStar_euclidean_distance(coords, src, tgt)
    IN  [g_score        |-> [node \in NodeSet(g) \cup {src} |->
                                IF node = src THEN 0 ELSE Inf],
         f_score        |-> [node \in NodeSet(g) \cup {src} |->
                                IF node = src THEN h ELSE Inf],
         previous       |-> [node \in NodeSet(g) |-> None],
         open_set       |-> << <<h, 0, src>> >>,
         open_set_nodes |-> {src},
         closed_set     |-> {},
         visited_order  |-> <<>>,
         broke          |-> FALSE,
         raised         |-> FALSE]

\* AStar_relax recording the predecessor only the first time a node is reached
AStar_relax_first_previous(s, coords, current_node, tgt, neighbor, weight) ==
    IF neighbor \in s.closed_set THEN s
    ELSE LET tentative_g_score == FloatAdd(s.g_score[current_node], weight)
         IN  IF FloatLess(tentative_g_score, s.g_score[neighbor])
             THEN LET f == tentative_g_score
                             + AStar_euclidean_distance(coords, neighbor, tgt)
                      s1 == [s EXCEPT !.previous[neighbor] =
                                          IF @ = None THEN current_node ELSE @,
                                      !.g_score[neighbor] = tentative_g_score,
                                      !.f_score[neighbor] = f]
                  IN  IF neighbor \notin s1.open_set_nodes
                      THEN [s1 EXCEPT
                               !.open_set = heappush(@, <<f, tentative_g_score, neighbor>>),
                               !.open_set_nodes = @ \cup {neighbor}]
                      ELSE s1
             ELSE s

\* the relaxation of one (neighbor, weight) entry of the closed node: the
\* improved entry is pushed only when the neighbor is not in open_set_nodes
AStar_relax(s, coords, current_node, tgt, neighbor, weight) ==
    IF neighbor \in s.closed_set THEN s
    ELSE LET tentative_g_score == FloatAdd(s.g_score[current_node], weight)
         IN  IF FloatLess(tentative_g_score, s.g_score[neighbor])
             THEN LET f == tentative_g_score
                             + AStar_euclidean_distance(coords, neighbor, tgt)
                      s1 == [s EXCEPT !.previous[neighbor] = current_node,
                                      !.g_score[neighbor] = tentative_g_score,
                                      !.f_score[neighbor] = f]
                  IN  IF neighbor \notin s1.open_set_nodes
                      THEN [s1 EXCEPT
                               !.open_set = heappush(@, <<f, tentative_g_score, neighbor>>),
                               !.open_set_nodes = @ \cup {neighbor}]
                      ELSE s1
             ELSE s

\* the for loop over adjacency_list[current_node], from entry i on
RECURSIVE AStar_neighbors(_, _, _, _, _, _)
AStar_neighbors(s, adj, coords, current_node, tgt, i) ==
    IF i > Len(adj[current_node]) THEN s
    ELSE AStar_neighbors(
             AStar_relax(s, coords, current_node, tgt,
                         adj[current_node][i][1], adj[current_node][i][2]),
             adj, coords, current_node, tgt, i + 1)

\* AStar_iteration without the break at the target
AStar_iteration_no_break(s, adj, coords, tgt, iv) ==
    LET popped       == heappop(s.open_set)
        current_node == popped.item[3]
        s1 == [s EXCEPT !.open_set = popped.heap,
                        !.open_set_nodes = @ \ {current_node}]
    IN  IF current_node \in s1.closed_set THEN s1
        ELSE LET s2 == [s1 EXCEPT !.closed_set = @ \cup {current_node},
                                  !.visited_order =
                                      IF iv THEN Append(@, current_node) ELSE @]
             IN  IF current_node \notin DOMAIN adj
                 THEN [s2 EXCEPT !.raised = TRUE]
                 ELSE AStar_neighbors(s2, adj, coords, current_node, tgt, 1)

\* one iteration of the while loop of find_shortest_path;
\* self.adjacency_list[current_node] raises KeyError when the node popped is
\* not a graph node
AStar_iteration(s, adj, coords, tgt, iv) ==
    LET popped       == heappop(s.open_set)
        current_node == popped.item[3]
        s1 == [s EXCEPT !.open_set = popped.heap,
                        !.open_set_nodes = @ \ {current_node}]
    IN  IF current_node \in s1.closed_set THEN s1
        ELSE LET s2 == [s1 EXCEPT !.closed_set = @ \cup {current_node},
                                  !.visited_order =
                                      IF iv THEN Append(@, current_node) ELSE @]
             IN  IF current_node = tgt THEN [s2 EXCEPT !.broke = TRUE]
                 ELSE IF current_node \notin DOMAIN adj
                 THEN [s2 EXCEPT !.raised = TRUE]
                 ELSE AStar_neighbors(s2, adj, coords, current_node, tgt, 1)

\* AStar_finish testing that the target is a key of g_score, which it always is
AStar_finish_key(s, tgt, iv) ==
    IF tgt \notin DOMAIN s.g_score THEN KeyError
    ELSE LET path_exists == tgt \in DOMAIN s.g_score
             path == IF path_exists THEN Reverse(WalkPrevious(s.previous, tgt))
                     ELSE <<>>
         IN  PathResult(path, s.g_score[tgt], ASTAR, Cardinality(s.closed_set),
                        IF iv THEN s.visited_order ELSE NoVisitedNodes, path_exists)

\* find_shortest_path, after the while loop; g_score[target] raises KeyError
\* when the target is not a key
AStar_finish(s, tgt, iv) ==
    IF tgt \notin DOMAIN s.g_score THEN KeyError
    ELSE LET path_exists == s.g_score[tgt] # Inf
             path == IF path_exists THEN Reverse(WalkPrevious(s.previous, tgt))
                     ELSE <<>>
         IN  PathResult(path, s.g_score[tgt], ASTAR, Cardinality(s.closed_set),
                        IF iv THEN s.visited_order ELSE NoVisitedNodes, path_exists)

RECURSIVE AStar_while(_, _, _, _, _)
AStar_while(s, adj, coords, tgt, iv) ==
    IF s.open_set = <<>> \/ s.broke \/ s.raised THEN s
    ELSE AStar_while(AStar_iteration(s, adj, coords, tgt, iv), adj, coords, tgt, iv)

AStar_find_shortest_path(g, adj, coords, src, tgt, iv) ==
    IF src = tgt THEN AStar_trivial(src, iv)
    ELSE LET s == AStar_while(AStar_start(g, coords, src, tgt), adj, coords, tgt, iv)
         IN  IF s.raised THEN KeyError ELSE AStar_finish(s, tgt, iv)

----------------------------------------------------------------------------
(* AlgorithmFactory *)

\* create_algorithm: the adjacency list the constructor of the chosen
\* algorithm builds
create_algorithm(algorithm_type, g) ==
    IF algorithm_type = DIJKSTRA THEN Dijkstra_build_adjacency_list(g)
    ELSE IF algorithm_type = BFS THEN BFS_build_adjacency_list(g)
    ELSE AStar_build_adjacency_list(g)

\* set_node_coordinates: self.node_coordinates.update(coordinates)
AStar_set_node_coordinates(node_coords, coordinates) == coordinates @@ node_coords

\* the ValueError a rejected choice would be
ValueError == [raised |-> "ValueError"]

\* _validate_algorithm_choice rejecting BFS on a graph of other weights than 1.0
validate_algorithm_choice_strict(g, algorithm_type) ==
    IF algorithm_type = BFS
    THEN IF ~BFS_is_graph_suitable_for_bfs(g, 1)
         THEN [raised |-> TRUE, logged |-> <<>>]
         ELSE [raised |-> FALSE, logged |-> <<>>]
    ELSE IF algorithm_type = ASTAR
    THEN [raised |-> FALSE, logged |-> <<"info">>]
    ELSE [raised |-> FALSE, logged |-> <<>>]

\* _validate_algorithm_choice on a graph of whole weights: whether it raises
\* and what it logs
validate_algorithm_choice(g, algorithm_type) ==
    IF algorithm_type = BFS
    THEN IF ~BFS_is_graph_suitable_for_bfs(g, 1)
         THEN [raised |-> FALSE, logged |-> <<"warning">>]
         ELSE [raised |-> FALSE, logged |-> <<>>]
    ELSE IF algorithm_type = ASTAR
    THEN [raised |-> FALSE, logged |-> <<"info">>]
    ELSE [raised |-> FALSE, logged |-> <<>>]

\* calculate_shortest_path(graph, query, node_coordinates); node_coordinates
\* None or empty is <<>>
calculate_shortest_path(g, algorithm_type, src, tgt, iv, coordinates) ==
    IF validate_algorithm_choice(g, algorithm_type).raised THEN ValueError
    ELSE IF algorithm_type = DIJKSTRA
    THEN Dijkstra_find_shortest_path(g, Dijkstra_build_adjacency_list(g), src, tgt, iv)
    ELSE IF algorithm_type = BFS
    THEN BFS_find_shortest_path(BFS_build_adjacency_list(g), src, tgt, iv)
    ELSE AStar_find_shortest_path(
             g, AStar_build_adjacency_list(g),
             IF coordinates # <<>>
             THEN AStar_set_node_coordinates(AStar_extract_coordinates(g), coordinates)
             ELSE AStar_extract_coordinates(g),
             src, tgt, iv)

algorithms_to_test == <<DIJKSTRA, BFS, ASTAR>>

\* benchmark_loop leaving the loop at the first algorithm that fails
RECURSIVE benchmark_loop_abort(_, _, _, _, _, _)
benchmark_loop_abort(g, src, tgt, coordinates, i, results) ==
    IF i > Len(algorithms_to_test) THEN results
    ELSE LET algo_type == algorithms_to_test[i]
             res == calculate_shortest_path(g, algo_type, src, tgt, FALSE, coordinates)
         IN  IF res \in {KeyError, ValueError} THEN results
             ELSE benchmark_loop_abort(g, src, tgt, coordinates, i + 1,
                                       (algo_type :> res) @@ results)

\* benchmark_algorithms: the loop over algorithms_to_test, from entry i on;
\* an exception of the try block is logged and the loop goes on.  PathQuery
\* strips the names and rejects an empty one; the names of the model are
\* non-empty and have no blanks around them.
RECURSIVE benchmark_loop(_, _, _, _, _, _)
benchmark_loop(g, src, tgt, coordinates, i, results) ==
    IF i > Len(algorithms_to_test) THEN results
    ELSE LET algo_type == algorithms_to_test[i]
             res == calculate_shortest_path(g, algo_type, src, tgt, FALSE, coordinates)
         IN  benchmark_loop(g, src, tgt, coordinates, i + 1,
                            IF res \in {KeyError, ValueError} THEN results
                            ELSE (algo_type :> res) @@ results)

\* benchmark_algorithms(graph, source, target, node_coordinates)
benchmark_algorithms(g, src, tgt, coordinates) ==
    benchmark_loop(g, src, tgt, coordinates, 1, <<>>)

\* find_shortest_path of a fresh instance of the algorithm on g (default
\* coordinates for A*)
find_shortest_path(algorithm_type, g, src, tgt, iv) ==
    IF algorithm_type = DIJKSTRA
    THEN Dijkstra_find_shortest_path(g, Dijkstra_build_adjacency_list(g), src, tgt, iv)
    ELSE IF algorithm_type = BFS
    THEN BFS_find_shortest_path(BFS_build_adjacency_list(g), src, tgt, iv)
    ELSE AStar_find_shortest_path(g, AStar_build_adjacency_list(g),
                                  AStar_extract_coordinates(g), src, tgt, iv)

\* the node counts above which the selector adds its notes
LargeNodeCount == 1000
VeryLargeNodeCount == 5000

\* graph.metadata.density > 0.5, the density kept as <<edge_count,
\* possible_edges>>
DensityAboveHalf(density) == 2 * density[1] > density[2]

\* get_algorithm_recommendations adding A* for a large graph without testing
\* whether it is among the alternatives already
get_algorithm_recommendations_append(g, one) ==
    LET is_unweighted ==
            \A i \in 1..Len(g.edges) :
                BelowTolerance(abs(g.edges[i].weight - one), one)
        node_count == Len(g.nodes)
        r0 == [primary |-> None, alternatives |-> <<>>, reasoning |-> <<>>,
               graph_stats |-> [nodes |-> Len(g.nodes), edges |-> Len(g.edges),
                                directed |-> g.directed,
                                density |-> g.metadata.density]]
        r1 == IF is_unweighted
              THEN [r0 EXCEPT !.primary = BFS, !.alternatives = <<DIJKSTRA>>,
                              !.reasoning = Append(@, "BFS recommended")]
              ELSE [r0 EXCEPT !.primary = DIJKSTRA, !.alternatives = <<ASTAR>>,
                              !.reasoning = Append(@, "Dijkstra recommended")]
        r2 == IF node_count > LargeNodeCount
              THEN [r1 EXCEPT !.alternatives = Append(@, ASTAR),
                              !.reasoning = Append(@, "A* may be faster")]
              ELSE r1
        r3 == IF node_count > VeryLargeNodeCount
              THEN [r2 EXCEPT !.reasoning = Append(@, "Consider bidirectional search")]
              ELSE r2
    IN  IF DensityAboveHalf(g.metadata.density)
        THEN [r3 EXCEPT !.reasoning = Append(@, "Dense graph detected")]
        ELSE r3

\* get_algorithm_recommendations(graph)
get_algorithm_recommendations(g, one) ==
    LET is_unweighted ==
            \A i \in 1..Len(g.edges) :
                BelowTolerance(abs(g.edges[i].weight - one), one)
        node_count == Len(g.nodes)
        r0 == [primary |-> None, alternatives |-> <<>>, reasoning |-> <<>>,
               graph_stats |-> [nodes |-> Len(g.nodes), edges |-> Len(g.edges),
                                directed |-> g.directed,
                                density |-> g.metadata.density]]
        r1 == IF is_unweighted
              THEN [r0 EXCEPT !.primary = BFS, !.alternatives = <<DIJKSTRA>>,
                              !.reasoning = Append(@, "BFS recommended")]
              ELSE [r0 EXCEPT !.primary = DIJKSTRA, !.alternatives = <<ASTAR>>,
                              !.reasoning = Append(@, "Dijkstra recommended")]
        r2 == IF node_count > LargeNodeCount
              THEN [r1 EXCEPT !.alternatives =
                                  IF \A k \in 1..Len(@) : @[k] # ASTAR
                                  THEN Append(@, ASTAR) ELSE @,
                              !.reasoning = Append(@, "A* may be faster")]
              ELSE r1
        r3 == IF node_count > VeryLargeNodeCount
              THEN [r2 EXCEPT !.reasoning = Append(@, "Consider bidirectional search")]
              ELSE r2
    IN  IF DensityAboveHalf(g.metadata.density)
        THEN [r3 EXCEPT !.reasoning = Append(@, "Dense graph detected")]
        ELSE r3

\* GraphValidationService.calculate_graph_metadata: the density (the other
\* fields are not read by the selector); networkx counts an edge once however
\* often it is given, and for an undirected graph in whichever direction
calculate_graph_metadata(d, ns, es) ==
    LET node_count == Len(ns)
        edge_count ==
            Cardinality({IF d THEN <<es[i].from_node, es[i].to_node>>
                         ELSE {es[i].from_node, es[i].to_node} : i \in 1..Len(es)})
        possible_edges == IF d THEN node_count * (node_count - 1)
                          ELSE (node_count * (node_count - 1)) \div 2
    IN  [density |-> IF node_count > 1 /\ possible_edges > 0
                     THEN <<edge_count, possible_edges>> ELSE <<0, 1>>]

\* a Graph as the service stores it, with its metadata
StoredGraph(d, ns, es) ==
    [directed |-> d, nodes |-> ns, edges |-> es,
     metadata |-> calculate_graph_metadata(d, ns, es)]

----------------------------------------------------------------------------
(* The graphs and queries explored *)

RECURSIVE Iota(_)
Iota(n) == IF n = 0 THEN <<>> ELSE Append(Iota(n - 1), n)

\* edge-list family
ListEdges == {Edge(a, b, w) : a \in 1..NumNodes, b \in 1..NumNodes, w \in 1..MaxWeight}

EdgeLists == UNION {[1..k -> ListEdges] : k \in 0..MaxEdges}

ListGraphs == {Graph(d, Iota(NumNodes), es) : d \in BOOLEAN, es \in EdgeLists}

\* weight-table family: the pairs i < j in lexicographic order
RECURSIVE PairsFrom(_, _)
PairsFrom(i, j) ==
    IF i >= TableNodes THEN <<>>
    ELSE IF j > TableNodes THEN PairsFrom(i + 1, i + 2)
    ELSE <<(<<i, j>>)>> \o PairsFrom(i, j + 1)

TablePairs == PairsFrom(1, 2)

RECURSIVE TableEdges(_, _)
TableEdges(t, k) ==
    IF k > Len(TablePairs) THEN <<>>
    ELSE (IF t[k] = 0 THEN <<>>
          ELSE <<Edge(TablePairs[k][1], TablePairs[k][2], t[k])>>)
         \o TableEdges(t, k + 1)

TableGraphs ==
    {Graph(d, Iota(TableNodes), TableEdges(t, 1)) :
        d \in BOOLEAN, t \in [1..Len(TablePairs) -> {0, 1, HeavyWeight}]}

Graphs == ListGraphs \cup TableGraphs

----------------------------------------------------------------------------
(* The state machine: an algorithm instance and the calls made on it *)

\* AlgorithmFactory.create_algorithm(algorithm_type, graph): the state after
\* the constructor of the algorithm
Init ==
    /\ graph \in Graphs
    /\ algorithm \in AlgorithmType
    /\ adjacency_list = create_algorithm(algorithm, graph)
    /\ node_coordinates = AStar_extract_coordinates(graph)
    /\ pc = "idle"
    /\ source = None
    /\ target = None
    /\ include_visited = FALSE
    /\ st = <<>>
    /\ result = <<>>
    /\ calls = <<>>

\* find_shortest_path(src, tgt, iv) is called: the code before the loop; the
\* source == target branch of BFS and A* returns at once
Call(src, tgt, iv) ==
    /\ pc = "idle"
    /\ source' = src
    /\ target' = tgt
    /\ include_visited' = iv
    /\ IF algorithm = DIJKSTRA
       THEN /\ st' = Dijkstra_start(graph, src)
            /\ pc' = "loop"
            /\ result' = <<>>
       ELSE IF src = tgt
       THEN /\ st' = <<>>
            /\ pc' = "done"
            /\ result' = IF algorithm = BFS THEN BFS_trivial(src, iv)
                         ELSE AStar_trivial(src, iv)
       ELSE /\ st' = IF algorithm = BFS THEN BFS_start(src, iv)
                     ELSE AStar_start(graph, node_coordinates, src, tgt)
            /\ pc' = "loop"
            /\ result' = <<>>
    /\ UNCHANGED <<graph, algorithm, adjacency_list, node_coordinates, calls>>

DijkstraLoop ==
    /\ pc = "loop" /\ algorithm = DIJKSTRA
    /\ st.pq # <<>> /\ ~st.broke /\ ~st.raised
    /\ st' = Dijkstra_iteration(st, adjacency_list, target, include_visited)
    /\ UNCHANGED <<graph, algorithm, adjacency_list, node_coordinates,
                   pc, source, target, include_visited, result, calls>>

DijkstraReturn ==
    /\ pc = "loop" /\ algorithm = DIJKSTRA
    /\ (st.pq = <<>> \/ st.broke \/ st.raised)
    /\ result' = IF st.raised THEN KeyError
                  ELSE Dijkstra_finish(st, target, include_visited)
    /\ pc' = IF result' = KeyError THEN "raised" ELSE "done"
    /\ UNCHANGED <<graph, algorithm, adjacency_list, node_coordinates,
                   source, target, include_visited, st, calls>>

BFSLoop ==
    /\ pc = "loop" /\ algorithm = BFS
    /\ st.queue # <<>> /\ ~st.path_found /\ ~st.raised
    /\ st' = BFS_iteration(st, adjacency_list, target, include_visited)
    /\ UNCHANGED <<graph, algorithm, adjacency_list, node_coordinates,
                   pc, source, target, include_visited, result, calls>>

BFSReturn ==
    /\ pc = "loop" /\ algorithm = BFS
    /\ (st.queue = <<>> \/ st.path_found \/ st.raised)
    /\ result' = IF st.raised THEN KeyError
                  ELSE BFS_finish(st, target, include_visited)
    /\ pc' = IF result' = KeyError THEN "raised" ELSE "done"
    /\ UNCHANGED <<graph, algorithm, adjacency_list, node_coordinates,
                   source, target, include_visited, st, calls>>

AStarLoop ==
    /\ pc = "loop" /\ algorithm = ASTAR
    /\ st.open_set # <<>> /\ ~st.broke /\ ~st.raised
    /\ st' = AStar_iteration(st, adjacency_list, node_coordinates, target,
                             include_visited)
    /\ UNCHANGED <<graph, algorithm, adjacency_list, node_coordinates,
                   pc, source, target, include_visited, result, calls>>

AStarReturn ==
    /\ pc = "loop" /\ algorithm = ASTAR
    /\ (st.open_set = <<>> \/ st.broke \/ st.raised)
    /\ result' = IF st.raised THEN KeyError
                  ELSE AStar_finish(st, target, include_visited)
    /\ pc' = IF result' = KeyError THEN "raised" ELSE "done"
    /\ UNCHANGED <<graph, algorithm, adjacency_list, node_coordinates,
                   source, target, include_visited, st, calls>>

CallAny == \E src \in NodeSet(graph), tgt \in NodeSet(graph), iv \in BOOLEAN :
               Call(src, tgt, iv)

Next ==
    \/ CallAny
    \/ DijkstraLoop
    \/ DijkstraReturn
    \/ BFSLoop
    \/ BFSReturn
    \/ AStarLoop
    \/ AStarReturn

Spec == Init /\ [][Next]_vars

----------------------------------------------------------------------------
(* The same instance called with any node, a graph node or not: the search  *)
(* methods take any string, the membership test of the query is made by    *)
(* their callers                                                           *)

\* a node identifier that is not in graph.nodes
UnknownNode(g) == Len(g.nodes) + 1

CallAnyNode ==
    \E src \in NodeSet(graph) \cup {UnknownNode(graph)},
       tgt \in NodeSet(graph) \cup {UnknownNode(graph)},
       iv \in BOOLEAN :
        Call(src, tgt, iv)

\* AlgorithmFactory.benchmark_algorithms(graph, src, tgt)
BenchmarkAlgorithms(src, tgt) ==
    /\ pc = "idle"
    /\ source' = src
    /\ target' = tgt
    /\ result' = benchmark_algorithms(graph, src, tgt, <<>>)
    /\ pc' = "benchmarked"
    /\ UNCHANGED <<graph, algorithm, adjacency_list, node_coordinates,
                   include_visited, st, calls>>

BenchmarkAnyNode ==
    \E src \in NodeSet(graph) \cup {UnknownNode(graph)},
       tgt \in NodeSet(graph) \cup {UnknownNode(graph)} :
        BenchmarkAlgorithms(src, tgt)

NextAnyNode ==
    \/ CallAnyNode
    \/ BenchmarkAnyNode
    \/ DijkstraLoop
    \/ DijkstraReturn
    \/ BFSLoop
    \/ BFSReturn
    \/ AStarLoop
    \/ AStarReturn

SpecAnyNode == Init /\ [][NextAnyNode]_vars

----------------------------------------------------------------------------
(* The other operations of an instance, each taken as one step *)

\* bfs.get_connected_components()
GetConnectedComponents ==
    /\ pc = "idle" /\ algorithm = BFS
    /\ result' = BFS_get_connected_components(graph, adjacency_list)
    /\ pc' = "components"
    /\ UNCHANGED <<graph, algorithm, adjacency_list, node_coordinates,
                   source, target, include_visited, st, calls>>

\* algorithm.find_all_shortest_paths(src) of Dijkstra and of BFS (A* has no
\* such method)
FindAllShortestPaths(src) ==
    /\ pc = "idle" /\ algorithm \in {DIJKSTRA, BFS}
    /\ source' = src
    /\ result' = IF algorithm = DIJKSTRA
                  THEN Dijkstra_find_all_shortest_paths(graph, adjacency_list, src)
                  ELSE BFS_find_all_shortest_paths(graph, adjacency_list, src)
    /\ pc' = "all"
    /\ UNCHANGED <<graph, algorithm, adjacency_list, node_coordinates,
                   target, include_visited, st, calls>>

FindAllAny == \E src \in NodeSet(graph) : FindAllShortestPaths(src)

\* AlgorithmFactory.calculate_shortest_path(graph, query) with the algorithm
\* of the instance as query.algorithm and no node_coordinates
CalculateShortestPath(src, tgt, iv) ==
    /\ pc = "idle"
    /\ source' = src
    /\ target' = tgt
    /\ include_visited' = iv
    /\ result' = calculate_shortest_path(graph, algorithm, src, tgt, iv, <<>>)
    /\ pc' = "calculated"
    /\ UNCHANGED <<graph, algorithm, adjacency_list, node_coordinates, st, calls>>

CalculateAny ==
    \E src \in NodeSet(graph), tgt \in NodeSet(graph), iv \in BOOLEAN :
        CalculateShortestPath(src, tgt, iv)

NextOperations ==
    \/ GetConnectedComponents
    \/ FindAllAny
    \/ CalculateAny

SpecOperations == Init /\ [][NextOperations]_vars

----------------------------------------------------------------------------
(* An A* instance that is given node coordinates before it is called *)

CoordinatePoints == {<<x, 0>> : x \in 0..MaxCoord}

InitCoordinates ==
    /\ graph \in TableGraphs
    /\ algorithm = ASTAR
    /\ adjacency_list = create_algorithm(algorithm, graph)
    /\ node_coordinates = AStar_extract_coordinates(graph)
    /\ pc = "idle"
    /\ source = None
    /\ target = None
    /\ include_visited = FALSE
    /\ st = <<>>
    /\ result = <<>>
    /\ calls = <<>>

\* astar.set_node_coordinates(coordinates)
SetNodeCoordinates(coordinates) ==
    /\ pc = "idle" /\ algorithm = ASTAR
    /\ node_coordinates' = AStar_set_node_coordinates(node_coordinates, coordinates)
    /\ UNCHANGED <<graph, algorithm, adjacency_list,
                   pc, source, target, include_visited, st, result, calls>>

\* coordinates for some or all of the nodes
SetAnyNodeCoordinates ==
    \E nodes \in SUBSET NodeSet(graph) :
        /\ nodes # {}
        /\ \E coordinates \in [nodes -> CoordinatePoints] :
              SetNodeCoordinates(coordinates)

\* find_shortest_path(src, tgt), include_visited left at its default
CallDefault == \E src \in NodeSet(graph), tgt \in NodeSet(graph) : Call(src, tgt, FALSE)

NextCoordinates ==
    \/ SetAnyNodeCoordinates
    \/ CallDefault
    \/ AStarLoop
    \/ AStarReturn

SpecCoordinates == InitCoordinates /\ [][NextCoordinates]_vars

----------------------------------------------------------------------------
(* Several calls in progress on one instance, their loop iterations         *)
(* interleaved in any order.  What a call works on (distances, previous,    *)
(* visited, the heap or queue, ...) are locals of the method, so every call *)
(* has its own; self.graph, self.adjacency_list and self.node_coordinates   *)
(* are read only.                                                           *)

FIND_SHORTEST_PATH == "find_shortest_path"
FIND_ALL_SHORTEST_PATHS == "find_all_shortest_paths"

NoCall ==
    [pc |-> "idle", method |-> None, source |-> None, target |-> None,
     include_visited |-> FALSE, st |-> <<>>, result |-> <<>>]

\* find_shortest_path(src, tgt, iv): the code before the loop
StartShortestPath(src, tgt, iv) ==
    LET c == [NoCall EXCEPT !.method = FIND_SHORTEST_PATH, !.source = src,
                            !.target = tgt, !.include_visited = iv]
    IN  IF algorithm = DIJKSTRA
        THEN [c EXCEPT !.pc = "loop", !.st = Dijkstra_start(graph, src)]
        ELSE IF src = tgt
        THEN [c EXCEPT !.pc = "done",
                       !.result = IF algorithm = BFS THEN BFS_trivial(src, iv)
                                  ELSE AStar_trivial(src, iv)]
        ELSE [c EXCEPT !.pc = "loop",
                       !.st = IF algorithm = BFS THEN BFS_start(src, iv)
                              ELSE AStar_start(graph, node_coordinates, src, tgt)]

\* find_all_shortest_paths(src): the code before the loop
StartAllShortestPaths(src) ==
    [NoCall EXCEPT !.method = FIND_ALL_SHORTEST_PATHS, !.source = src,
                   !.pc = "loop",
                   !.st = IF algorithm = DIJKSTRA THEN Dijkstra_all_start(graph, src)
                          ELSE BFS_all_start(src)]

\* the condition of the while loop of the call c
Looping(c) ==
    /\ c.pc = "loop"
    /\ ~c.st.raised
    /\ IF c.method = FIND_SHORTEST_PATH
       THEN IF algorithm = DIJKSTRA THEN c.st.pq # <<>> /\ ~c.st.broke
            ELSE IF algorithm = BFS THEN c.st.queue # <<>> /\ ~c.st.path_found
            ELSE c.st.open_set # <<>> /\ ~c.st.broke
       ELSE IF algorithm = DIJKSTRA THEN c.st.pq # <<>>
            ELSE c.st.queue # <<>>

\* one iteration of the while loop of the call c
Iterate(c) ==
    [c EXCEPT !.st =
        IF c.method = FIND_SHORTEST_PATH
        THEN IF algorithm = DIJKSTRA
             THEN Dijkstra_iteration(c.st, adjacency_list, c.target, c.include_visited)
             ELSE IF algorithm = BFS
             THEN BFS_iteration(c.st, adjacency_list, c.target, c.include_visited)
             ELSE AStar_iteration(c.st, adjacency_list, node_coordinates, c.target,
                                  c.include_visited)
        ELSE IF algorithm = DIJKSTRA THEN Dijkstra_all_iteration(c.st, adjacency_list)
             ELSE BFS_all_iteration(c.st, adjacency_list)]

\* the code after the loop of the call c
Finish(c) ==
    LET res == IF c.st.raised THEN KeyError
               ELSE IF c.method = FIND_SHORTEST_PATH
               THEN IF algorithm = DIJKSTRA
                    THEN Dijkstra_finish(c.st, c.target, c.include_visited)
                    ELSE IF algorithm = BFS
                    THEN BFS_finish(c.st, c.target, c.include_visited)
                    ELSE AStar_finish(c.st, c.target, c.include_visited)
               ELSE IF algorithm = DIJKSTRA THEN c.st.distances
                    ELSE BFS_all_finish(graph, c.st)
    IN  [c EXCEPT !.result = res,
                  !.pc = IF res = KeyError THEN "raised" ELSE "done"]

\* StoreCall with the locals of a method kept in the instance, one copy for
\* all the calls of the method that are in their loop
StoreCall_shared(i, c) ==
    [j \in DOMAIN calls |->
        IF j = i THEN c
        ELSE IF c.pc = "loop" /\ calls[j].pc = "loop" /\ calls[j].method = c.method
        THEN [calls[j] EXCEPT !.st = c.st]
        ELSE calls[j]]

\* the call i goes on to c: the locals of a call are its own
StoreCall(i, c) == [calls EXCEPT ![i] = c]

\* the graphs of the concurrent calls: the undirected ones of the edge-list
\* family that have no self-loop
ConcurrentGraphs ==
    {g \in ListGraphs :
        /\ ~g.directed
        /\ \A i \in 1..Len(g.edges) : g.edges[i].from_node # g.edges[i].to_node}

InitConcurrent ==
    /\ graph \in ConcurrentGraphs
    /\ algorithm \in AlgorithmType
    /\ adjacency_list = create_algorithm(algorithm, graph)
    /\ node_coordinates = AStar_extract_coordinates(graph)
    /\ pc = "idle"
    /\ source = None
    /\ target = None
    /\ include_visited = FALSE
    /\ st = <<>>
    /\ result = <<>>
    /\ calls = [i \in 1..NumCalls |-> NoCall]

ConcurrentCall(i) ==
    /\ calls[i].pc = "idle"
    /\ \E src \in NodeSet(graph), tgt \in NodeSet(graph), iv \in BOOLEAN :
          calls' = StoreCall(i, StartShortestPath(src, tgt, iv))
    /\ UNCHANGED <<graph, algorithm, adjacency_list, node_coordinates,
                   pc, source, target, include_visited, st, result>>

ConcurrentCallAll(i) ==
    /\ calls[i].pc = "idle" /\ algorithm \in {DIJKSTRA, BFS}
    /\ \E src \in NodeSet(graph) : calls' = StoreCall(i, StartAllShortestPaths(src))
    /\ UNCHANGED <<graph, algorithm, adjacency_list, node_coordinates,
                   pc, source, target, include_visited, st, result>>

ConcurrentLoop(i) ==
    /\ Looping(calls[i])
    /\ calls' = StoreCall(i, Iterate(calls[i]))
    /\ UNCHANGED <<graph, algorithm, adjacency_list, node_coordinates,
                   pc, source, target, include_visited, st, result>>

ConcurrentReturn(i) ==
    /\ calls[i].pc = "loop" /\ ~Looping(calls[i])
    /\ calls' = StoreCall(i, Finish(calls[i]))
    /\ UNCHANGED <<graph, algorithm, adjacency_list, node_coordinates,
                   pc, source, target, include_visited, st, result>>

NextConcurrent ==
    \E i \in 1..NumCalls :
        \/ ConcurrentCall(i)
        \/ ConcurrentCallAll(i)
        \/ ConcurrentLoop(i)
        \/ ConcurrentReturn(i)

SpecConcurrent == InitConcurrent /\ [][NextConcurrent]_vars

----------------------------------------------------------------------------
(* The selector: AlgorithmFactory.get_algorithm_recommendations on a stored *)
(* graph.  The weights of these graphs are the floats next to 1.0:         *)
(* FineOne - 1 is within the tolerance of 1.0, FineOne - 2 and FineOne + 2  *)
(* are the floats nearest to 1.0 that are not.                             *)

SelectorWeights ==
    {FineOne - d : d \in 0..MaxDeviation} \cup {FineOne + 2 * d : d \in 0..MaxDeviation}

\* edges between the first two nodes, in either direction
SelectorEdges == {Edge(a, b, w) : a \in 1..2, b \in 1..2, w \in SelectorWeights} \ 
                 {Edge(a, a, w) : a \in 1..2, w \in SelectorWeights}

SelectorNodeCounts ==
    {2, LargeNodeCount, LargeNodeCount + 1, VeryLargeNodeCount, VeryLargeNodeCount + 1}

SelectorGraphs ==
    {StoredGraph(d, [i \in 1..n |-> i], es) :
        d \in BOOLEAN, n \in SelectorNodeCounts,
        es \in UNION {[1..k -> SelectorEdges] : k \in 0..MaxEdges}}

InitSelector ==
    /\ graph \in SelectorGraphs
    /\ algorithm = None
    /\ adjacency_list = <<>>
    /\ node_coordinates = <<>>
    /\ pc = "idle"
    /\ source = None
    /\ target = None
    /\ include_visited = FALSE
    /\ st = <<>>
    /\ result = <<>>
    /\ calls = <<>>

\* AlgorithmFactory.get_algorithm_recommendations(graph)
Recommend ==
    /\ pc = "idle"
    /\ result' = get_algorithm_recommendations(graph, FineOne)
    /\ pc' = "recommended"
    /\ UNCHANGED <<graph, algorithm, adjacency_list, node_coordinates,
                   source, target, include_visited, st, calls>>

NextSelector == Recommend

SpecSelector == InitSelector /\ [][NextSelector]_vars

----------------------------------------------------------------------------
(* A call that runs: the thread executing find_shortest_path takes its next
   step as long as it has one *)

\* the graphs given as edge lists: they have self-loops, parallel edges and
\* cycles
InitLive == Init /\ graph \in ListGraphs

\* find_shortest_path(src, tgt) with include_visited at its default
CallLive == \E src \in NodeSet(graph), tgt \in NodeSet(graph) :
                Call(src, tgt, FALSE)

NextLive ==
    \/ CallLive
    \/ DijkstraLoop
    \/ DijkstraReturn
    \/ BFSLoop
    \/ BFSReturn
    \/ AStarLoop
    \/ AStarReturn

SpecLive == InitLive /\ [][NextLive]_vars /\ WF_vars(NextLive)

----------------------------------------------------------------------------
(* The two searches of DijkstraAlgorithm, one loop iteration per step *)

InitDijkstra == Init /\ algorithm = DIJKSTRA

\* find_all_shortest_paths(src) is called: the code before the loop
FindAllCall(src) ==
    /\ pc = "idle"
    /\ source' = src
    /\ st' = Dijkstra_all_start(graph, src)
    /\ pc' = "loop_all"
    /\ UNCHANGED <<graph, algorithm, adjacency_list, node_coordinates,
                   target, include_visited, result, calls>>

FindAllCallAny == \E src \in NodeSet(graph) : FindAllCall(src)

FindAllLoop ==
    /\ pc = "loop_all"
    /\ st.pq # <<>> /\ ~st.raised
    /\ st' = Dijkstra_all_iteration(st, adjacency_list)
    /\ UNCHANGED <<graph, algorithm, adjacency_list, node_coordinates,
                   pc, source, target, include_visited, result, calls>>

FindAllReturn ==
    /\ pc = "loop_all"
    /\ (st.pq = <<>> \/ st.raised)
    /\ result' = IF st.raised THEN KeyError ELSE st.distances
    /\ pc' = IF st.raised THEN "raised" ELSE "done_all"
    /\ UNCHANGED <<graph, algorithm, adjacency_list, node_coordinates,
                   source, target, include_visited, st, calls>>

NextSettle ==
    \/ CallAny
    \/ DijkstraLoop
    \/ DijkstraReturn
    \/ FindAllCallAny
    \/ FindAllLoop
    \/ FindAllReturn

SpecSettle == InitDijkstra /\ [][NextSettle]_vars

----------------------------------------------------------------------------
(* The endpoints POST /graphs/{graph_id}/shortest-path and                 *)
(* POST /graphs/{graph_id}/benchmark of routers/paths.py                   *)

\* services/storage.py: class GraphValidationError(Exception)
GraphValidationError == [raised |-> "GraphValidationError"]

\* no exception
NoException == [raised |-> "none"]

\* GraphValidationService.validate_path_query: it raises the builtin
\* ValueError
validate_path_query(g, src, tgt) ==
    IF src \notin NodeSet(g) THEN ValueError
    ELSE IF tgt \notin NodeSet(g) THEN ValueError
    ELSE NoException

\* the response of an endpoint: the status code, the "error" of the detail
\* and the body of a 200 response
HTTPResponse(status_code, error, body) ==
    [status_code |-> status_code, error |-> error, body |-> body]

\* the except clauses of an endpoint, in their order: GraphValidationError,
\* HTTPException (raised again), Exception; ValueError and KeyError are not
\* subclasses of GraphValidationError
paths_except(exc, failed) ==
    IF exc = GraphValidationError
    THEN HTTPResponse(400, "validation_failed", <<>>)
    ELSE HTTPResponse(500, failed, <<>>)

\* routers/paths.py calculate_shortest_path; found: storage_service.get_graph
\* returned the graph; engine lists the algorithms that were run
paths_calculate_shortest_path(g, found, algorithm_type, src, tgt, iv) ==
    IF ~found
    THEN [response |-> HTTPResponse(404, "graph_not_found", <<>>), engine |-> <<>>]
    ELSE LET v == validate_path_query(g, src, tgt)
         IN  IF v # NoException
             THEN [response |-> paths_except(v, "calculation_failed"),
                   engine |-> <<>>]
             ELSE LET r == calculate_shortest_path(g, algorithm_type, src, tgt,
                                                  iv, <<>>)
                  IN  [response |-> IF r \in {KeyError, ValueError}
                                    THEN paths_except(r, "calculation_failed")
                                    ELSE HTTPResponse(200, "", r),
                       engine |-> <<algorithm_type>>]

\* routers/paths.py benchmark_algorithms
paths_benchmark_algorithms(g, found, src, tgt) ==
    IF ~found
    THEN [response |-> HTTPResponse(404, "graph_not_found", <<>>), engine |-> <<>>]
    ELSE LET v == validate_path_query(g, src, tgt)
         IN  IF v # NoException
             THEN [response |-> paths_except(v, "benchmark_failed"),
                   engine |-> <<>>]
             ELSE [response |-> HTTPResponse(200, "",
                                             benchmark_algorithms(g, src, tgt, <<>>)),
                   engine |-> algorithms_to_test]

\* the stored graphs: graph is the graph stored under the id of the requests
InitRouter ==
    /\ graph \in ListGraphs
    /\ algorithm = None
    /\ adjacency_list = <<>>
    /\ node_coordinates = <<>>
    /\ pc = "idle"
    /\ source = None
    /\ target = None
    /\ include_visited = FALSE
    /\ st = <<>>
    /\ result = <<>>
    /\ calls = <<>>

\* a request to POST /graphs/{graph_id}/shortest-path is answered
PostShortestPath(found, algorithm_type, src, tgt, iv) ==
    /\ pc = "idle"
    /\ source' = src
    /\ target' = tgt
    /\ include_visited' = iv
    /\ LET out == paths_calculate_shortest_path(graph, found, algorithm_type,
                                                src, tgt, iv)
       IN  /\ st' = [endpoint |-> "shortest-path", found |-> found,
                     algorithm |-> algorithm_type, engine |-> out.engine]
           /\ result' = out.response
    /\ pc' = "responded"
    /\ UNCHANGED <<graph, algorithm, adjacency_list, node_coordinates, calls>>

\* a request to POST /graphs/{graph_id}/benchmark is answered
PostBenchmark(found, algorithm_type, src, tgt, iv) ==
    /\ pc = "idle"
    /\ source' = src
    /\ target' = tgt
    /\ include_visited' = iv
    /\ LET out == paths_benchmark_algorithms(graph, found, src, tgt)
       IN  /\ st' = [endpoint |-> "benchmark", found |-> found,
                     algorithm |-> algorithm_type, engine |-> out.engine]
           /\ result' = out.response
    /\ pc' = "responded"
    /\ UNCHANGED <<graph, algorithm, adjacency_list, node_coordinates, calls>>

\* the requests: any graph id, any PathQuery
NextRouter ==
    \/ \E found \in BOOLEAN, algorithm_type \in AlgorithmType,
          src \in NodeSet(graph) \cup {UnknownNode(graph)},
          tgt \in NodeSet(graph) \cup {UnknownNode(graph)}, iv \in BOOLEAN :
           PostShortestPath(found, algorithm_type, src, tgt, iv)
    \/ \E found \in BOOLEAN, algorithm_type \in AlgorithmType,
          src \in NodeSet(graph) \cup {UnknownNode(graph)},
          tgt \in NodeSet(graph) \cup {UnknownNode(graph)}, iv \in BOOLEAN :
           PostBenchmark(found, algorithm_type, src, tgt, iv)

SpecRouter == InitRouter /\ [][NextRouter]_vars

----------------------------------------------------------------------------
(* GraphStorageService.get_graph and delete_graph called by several        *)
(* clients of one redis server; each redis command is one step             *)

\* the clients calling the storage service at the same time
NumClients == 2

\* the calls that return, over all clients
MaxReturns == 4

\* a client between two calls
IdleClient == [op |-> "none", pc |-> "idle", graph_data |-> <<>>,
           deleted |-> FALSE, after_delete |-> FALSE]

\* a call of delete_graph(graph_id) has returned True
DeleteReturnedTrue ==
    \E i \in 1..Len(result) : result[i].op = "delete_graph" /\ result[i].ret

\* after store_graph: the key graph:<id> holds the graph (<<>> is a key that
\* does not exist), graph_index holds the id; no call is running
InitStorage ==
    /\ graph = Graph(FALSE, Iota(NumNodes), <<>>)
    /\ algorithm = None
    /\ adjacency_list = <<>>
    /\ node_coordinates = <<>>
    /\ pc = "stored"
    /\ source = None
    /\ target = None
    /\ include_visited = FALSE
    /\ st = [graph_key |-> <<graph>>, graph_index |-> {"graph_id"}]
    /\ result = <<>>
    /\ calls = [c \in 1..NumClients |-> IdleClient]

\* a client calls get_graph(graph_id) or delete_graph(graph_id)
StorageCall(c, op) ==
    /\ calls[c].pc = "idle"
    /\ Len(result) + Cardinality({d \in 1..NumClients : calls[d].pc # "idle"}) < MaxReturns
    /\ calls' = [calls EXCEPT ![c] =
                    [op |-> op, pc |-> IF op = "get_graph" THEN "get" ELSE "delete",
                     graph_data |-> <<>>, deleted |-> FALSE,
                     after_delete |-> DeleteReturnedTrue]]
    /\ UNCHANGED <<graph, algorithm, adjacency_list, node_coordinates, pc,
                   source, target, include_visited, st, result>>

\* get_graph: graph_data = redis_client.get(graph_key); return None if there
\* is none
GetGraphGet(c) ==
    /\ calls[c].pc = "get"
    /\ IF st.graph_key = <<>>
       THEN /\ result' = Append(result, [client |-> c, op |-> "get_graph",
                                          ret |-> <<>>,
                                          after_delete |-> calls[c].after_delete])
            /\ calls' = [calls EXCEPT ![c] = IdleClient]
       ELSE /\ calls' = [calls EXCEPT ![c].graph_data = st.graph_key,
                                      ![c].pc = "setex"]
            /\ UNCHANGED result
    /\ UNCHANGED <<graph, algorithm, adjacency_list, node_coordinates, pc,
                   source, target, include_visited, st>>

\* get_graph: redis_client.setex(graph_key, 86400, graph.json()) of the graph
\* read before; return graph
GetGraphSetex(c) ==
    /\ calls[c].pc = "setex"
    /\ st' = [st EXCEPT !.graph_key = calls[c].graph_data]
    /\ result' = Append(result, [client |-> c, op |-> "get_graph",
                                  ret |-> calls[c].graph_data,
                                  after_delete |-> calls[c].after_delete])
    /\ calls' = [calls EXCEPT ![c] = IdleClient]
    /\ UNCHANGED <<graph, algorithm, adjacency_list, node_coordinates, pc,
                   source, target, include_visited>>

\* delete_graph: deleted = redis_client.delete(graph_key)
DeleteGraphDelete(c) ==
    /\ calls[c].pc = "delete"
    /\ st' = [st EXCEPT !.graph_key = <<>>]
    /\ calls' = [calls EXCEPT ![c].deleted = (st.graph_key # <<>>),
                              ![c].pc = "srem"]
    /\ UNCHANGED <<graph, algorithm, adjacency_list, node_coordinates, pc,
                   source, target, include_visited, result>>

\* delete_graph: redis_client.srem("graph_index", graph_id); return True if
\* deleted, else False
DeleteGraphSrem(c) ==
    /\ calls[c].pc = "srem"
    /\ st' = [st EXCEPT !.graph_index = @ \ {"graph_id"}]
    /\ result' = Append(result, [client |-> c, op |-> "delete_graph",
                                  ret |-> calls[c].deleted,
                                  after_delete |-> calls[c].after_delete])
    /\ calls' = [calls EXCEPT ![c] = IdleClient]
    /\ UNCHANGED <<graph, algorithm, adjacency_list, node_coordinates, pc,
                   source, target, include_visited>>

NextStorage ==
    \/ \E c \in 1..NumClients, op \in {"get_graph", "delete_graph"} : StorageCall(c, op)
    \/ \E c \in 1..NumClients : GetGraphGet(c)
    \/ \E c \in 1..NumClients : GetGraphSetex(c)
    \/ \E c \in 1..NumClients : DeleteGraphDelete(c)
    \/ \E c \in 1..NumClients : DeleteGraphSrem(c)

SpecStorage == InitStorage /\ [][NextStorage]_vars

----------------------------------------------------------------------------
(* The constructor of PathResult called with arguments of any consistency *)

\* the paths and distances handed to the constructor
PathInputs ==
    {<<>>} \cup {<<a>> : a \in 1..NumNodes}
           \cup {<<a, b>> : a \in 1..NumNodes, b \in 1..NumNodes}
DistanceInputs == 0..MaxWeight \cup {Inf}

InitPathResult ==
    /\ graph = Graph(FALSE, Iota(NumNodes), <<>>)
    /\ algorithm \in AlgorithmType
    /\ adjacency_list = create_algorithm(algorithm, graph)
    /\ node_coordinates = AStar_extract_coordinates(graph)
    /\ pc = "idle"
    /\ source = None
    /\ target = None
    /\ include_visited = FALSE
    /\ st = <<>>
    /\ result = <<>>
    /\ calls = <<>>

\* PathResult(path=.., distance=.., .., exists=..): st keeps the arguments
ConstructPathResult(path, distance, visited_nodes_count, exists) ==
    /\ pc = "idle"
    /\ st' = [path |-> path, distance |-> distance, exists |-> exists]
    /\ result' = PathResult(path, distance, algorithm, visited_nodes_count,
                            NoVisitedNodes, exists)
    /\ pc' = "constructed"
    /\ UNCHANGED <<graph, algorithm, adjacency_list, node_coordinates,
                   source, target, include_visited, calls>>

ConstructAny ==
    \E path \in PathInputs, distance \in DistanceInputs,
       visited_nodes_count \in 0..NumNodes, exists \in BOOLEAN :
        ConstructPathResult(path, distance, visited_nodes_count, exists)

NextPathResult == ConstructAny

SpecPathResult == InitPathResult /\ [][NextPathResult]_vars

----------------------------------------------------------------------------
(* Reference notions the claims are stated with, defined on the graph alone *)

Done == pc = "done"

\* the call has ended, with a result or with an exception
Ended == pc \in {"done", "raised"}

\* a Dijkstra or A* search is in progress or has returned from its loop
Searching ==
    /\ pc \in {"loop", "done"}
    /\ algorithm = DIJKSTRA \/ (algorithm = ASTAR /\ source # target)

\* the settled nodes, the tentative distances and the heap of such a search
Closed(s) == IF algorithm = DIJKSTRA THEN s.visited ELSE s.closed_set
Tentative(s) == IF algorithm = DIJKSTRA THEN s.distances ELSE s.g_score
Heap(s) == IF algorithm = DIJKSTRA THEN s.pq ELSE s.open_set

\* the node at the top of a heap of (.., node) tuples
TopNode(h) == LET item == heappop(h).item IN item[Len(item)]

\* s has no element twice
NoDuplicates(s) == \A i, j \in 1..Len(s) : s[i] = s[j] => i = j

\* how a call ended: the exception, a path, or no path
Outcome(r) ==
    IF r = KeyError THEN "KeyError"
    ELSE IF r.exists THEN "found"
    ELSE "not_found"

\* the steps a path may take: <<u, v, w>> for an edge u -> v of weight w, and
\* for an undirected graph the same edge taken from v to u
Arcs(g) ==
    {<<g.edges[i].from_node, g.edges[i].to_node, g.edges[i].weight>> :
        i \in 1..Len(g.edges)}
    \cup (IF g.directed THEN {}
          ELSE {<<g.edges[i].to_node, g.edges[i].from_node, g.edges[i].weight>> :
                   i \in 1..Len(g.edges)})

MinOf(S) == CHOOSE x \in S : \A y \in S : x <= y

\* k rounds of relaxing every arc of the set arcs; unit = TRUE counts hops
\* instead of weights
RECURSIVE Relaxed(_, _, _, _)
Relaxed(arcs, d, unit, k) ==
    IF k = 0 THEN d
    ELSE Relaxed(arcs,
             [n \in DOMAIN d |->
                 LET via == {d[a[1]] + (IF unit THEN 1 ELSE a[3]) :
                                a \in {b \in arcs : b[2] = n /\ d[b[1]] # Inf}}
                     all == via \cup (IF d[n] = Inf THEN {} ELSE {d[n]})
                 IN  IF all = {} THEN Inf ELSE MinOf(all)],
             unit, k - 1)

\* the minimum total weight over all paths from s to t, Inf when there is none
MinWeight(g, s, t) ==
    Relaxed(Arcs(g), [n \in NodeSet(g) |-> IF n = s THEN 0 ELSE Inf], FALSE,
            Len(g.nodes))[t]

\* the minimum number of edges over all paths from s to t, Inf when there is none
MinHops(g, s, t) ==
    Relaxed(Arcs(g), [n \in NodeSet(g) |-> IF n = s THEN 0 ELSE Inf], TRUE,
            Len(g.nodes))[t]

Reachable(g, s, t) == MinHops(g, s, t) # Inf

\* consecutive nodes of p are joined by an arc of g
IsWalk(g, p) ==
    \A i \in 1..(Len(p) - 1) : \E a \in Arcs(g) : a[1] = p[i] /\ a[2] = p[i + 1]

\* the total weights p can have, one arc chosen for each consecutive pair
RECURSIVE WalkWeights(_, _, _)
WalkWeights(g, p, i) ==
    IF i >= Len(p) THEN {0}
    ELSE {a[3] + r : a \in {b \in Arcs(g) : b[1] = p[i] /\ b[2] = p[i + 1]},
                     r \in WalkWeights(g, p, i + 1)}

UnitWeights(g) == \A i \in 1..Len(g.edges) : g.edges[i].weight = 1

\* the Euclidean heuristic is admissible on g: for no pair of nodes joined by
\* a path does it exceed the minimum weight of a path (is_admissible_heuristic
\* holds of every pair)
Admissible(g, coords) ==
    \A a \in NodeSet(g) :
        LET d == Relaxed(Arcs(g), [n \in NodeSet(g) |-> IF n = a THEN 0 ELSE Inf],
                         FALSE, Len(g.nodes))
        IN  \A b \in NodeSet(g) :
                d[b] = Inf \/ AStar_euclidean_distance(coords, a, b) <= d[b]

\* the (neighbour, weight) entries node n owes to the edges i.. of g, in edge
\* order: the edge as given, then the edge reversed if g is undirected
RECURSIVE EntriesOf(_, _, _)
EntriesOf(g, n, i) ==
    IF i > Len(g.edges) THEN <<>>
    ELSE (IF g.edges[i].from_node = n
          THEN << <<g.edges[i].to_node, g.edges[i].weight>> >> ELSE <<>>)
         \o (IF ~g.directed /\ g.edges[i].to_node = n
             THEN << <<g.edges[i].from_node, g.edges[i].weight>> >> ELSE <<>>)
         \o EntriesOf(g, n, i + 1)

\* the neighbours of a list of (neighbour, weight) entries
RECURSIVE NeighboursOf(_)
NeighboursOf(l) == IF l = <<>> THEN <<>> ELSE <<Head(l)[1]>> \o NeighboursOf(Tail(l))

----------------------------------------------------------------------------
(* Claims *)

\* C1: Dijkstra's find_shortest_path(s, t) reports exists = true exactly when
\* t is reachable from s, and then its distance is the minimum total weight
\* over all s-to-t paths and the returned path is an s-to-t path of exactly
\* that total weight.
C1_DijkstraShortest ==
    (Done /\ algorithm = DIJKSTRA) =>
        /\ result.exists <=> (MinWeight(graph, source, target) # Inf)
        /\ result.exists =>
              /\ result.distance = MinWeight(graph, source, target)
              /\ result.path # <<>>
              /\ result.path[1] = source
              /\ result.path[Len(result.path)] = target
              /\ IsWalk(graph, result.path)
              /\ result.distance \in WalkWeights(graph, result.path, 1)

\* C1 witness: Dijkstra returned a path of at least two edges although a
\* direct edge from source to target exists, which is heavier.
C1_Witness ==
    /\ Done /\ algorithm = DIJKSTRA /\ result.exists
    /\ Len(result.path) >= 3
    /\ \E a \in Arcs(graph) :
           a[1] = source /\ a[2] = target /\ a[3] > result.distance

\* C2: with default coordinates A* reports the same distance and the same
\* exists flag as Dijkstra for the same graph and query.
C2_AStarEqualsDijkstra ==
    (Done /\ algorithm = ASTAR) =>
        LET d == Dijkstra_find_shortest_path(graph, Dijkstra_build_adjacency_list(graph),
                                             source, target, include_visited)
        IN  result.distance = d.distance /\ result.exists = d.exists

\* C3: on a graph in which all edge weights equal 1, for every pair s, t with
\* t reachable from s, the distance BFS reports equals the distance Dijkstra
\* reports.
C3_BFSEqualsDijkstraOnUnitWeights ==
    (Done /\ algorithm = BFS /\ UnitWeights(graph)
          /\ Reachable(graph, source, target)) =>
        result.distance =
            Dijkstra_find_shortest_path(graph, Dijkstra_build_adjacency_list(graph),
                                        source, target, include_visited).distance

\* C3 witness: BFS answered a query on a unit-weight graph whose target is
\* at least two edges away.
C3_Witness ==
    /\ Done /\ algorithm = BFS /\ UnitWeights(graph)
    /\ result.exists /\ result.distance >= 2

\* C4: for every graph and every pair s, t with t reachable from s, BFS
\* returns a path with the minimum number of edges among all s-to-t paths and
\* reports that hop count, len(path) - 1, as the distance, whatever the edge
\* weights are.
C4_BFSMinHops ==
    (Done /\ algorithm = BFS /\ Reachable(graph, source, target)) =>
        /\ result.exists
        /\ result.path[1] = source
        /\ result.path[Len(result.path)] = target
        /\ IsWalk(graph, result.path)
        /\ Len(result.path) - 1 = MinHops(graph, source, target)
        /\ result.distance = Len(result.path) - 1

\* C4 witness: BFS returned a path of at least two edges on a graph that has
\* an edge of weight other than 1 on that path.
C4_Witness ==
    /\ Done /\ algorithm = BFS /\ result.exists
    /\ Len(result.path) >= 3
    /\ \E a \in Arcs(graph) :
           a[1] = result.path[1] /\ a[2] = result.path[2] /\ a[3] > 1

\* C5: every PathResult returned by find_shortest_path of BFS, Dijkstra or
\* A* satisfies: exists = false implies the path is empty and the distance is
\* +infinity; exists = true implies the path is non-empty, starts at the
\* source and ends at the target.
C5_PathResultInvariant ==
    Done =>
        /\ ~result.exists => (result.path = <<>> /\ result.distance = Inf)
        /\ result.exists =>
              /\ result.path # <<>>
              /\ result.path[1] = source
              /\ result.path[Len(result.path)] = target

\* C5 witness: a returned result with exists = true whose path has distinct
\* first and last nodes and an inner node.
C5_Witness ==
    /\ Done /\ result.exists /\ algorithm = DIJKSTRA
    /\ Len(result.path) >= 3 /\ source # target

\* C6: for every algorithm, every graph and every query with exists = true,
\* each pair of consecutive nodes (u, v) of the returned path is joined by an
\* edge usable in that direction: an edge u -> v, or for an undirected graph
\* an edge between u and v in either orientation.
C6_PathFollowsEdges ==
    (Done /\ result.exists) => IsWalk(graph, result.path)

\* C6 witness: a path of two edges returned on a directed graph in which the
\* first edge of the path has no reverse edge.
C6_Witness ==
    /\ Done /\ result.exists /\ graph.directed /\ algorithm = BFS
    /\ Len(result.path) >= 3
    /\ ~\E a \in Arcs(graph) : a[1] = result.path[2] /\ a[2] = result.path[1]

\* C7 (as claimed): for every algorithm, BFS included, the weights of the
\* edges along the returned path sum to the reported distance.
C7_AsClaimed ==
    (Done /\ result.exists) =>
        result.distance \in WalkWeights(graph, result.path, 1)

\* C7 (amended): for Dijkstra and A* on every graph, and for BFS on graphs
\* whose edge weights all equal 1, the weights of the edges along the returned
\* path, the lightest of parallel edges being taken, sum to the reported
\* distance.
C7_PathWeightIsDistance ==
    (Done /\ result.exists /\ (algorithm # BFS \/ UnitWeights(graph))) =>
        result.distance = MinOf(WalkWeights(graph, result.path, 1))

\* C7 witness: A* returned a path of at least two edges whose distance
\* exceeds its number of edges.
C7_Witness ==
    /\ Done /\ algorithm = ASTAR /\ result.exists
    /\ Len(result.path) >= 3
    /\ result.distance > Len(result.path) - 1

\* C8: on an undirected graph each algorithm reports the same distance for
\* the query (a, b) as for the query (b, a).
C8_Symmetry ==
    (Done /\ ~graph.directed) =>
        result.distance =
            find_shortest_path(algorithm, graph, target, source, include_visited).distance

\* C9: find_shortest_path(x, x) returns path = [x], distance = 0,
\* exists = true and visited_nodes_count = 1 for every algorithm, with
\* visited_nodes = [x] when include_visited is set; Dijkstra, which has no
\* source == target branch, returns the same fields as BFS and A*.
C9_Reflexive ==
    (Done /\ source = target) =>
        /\ result.path = <<source>>
        /\ result.distance = 0
        /\ result.exists
        /\ result.visited_nodes_count = 1
        /\ result.visited_nodes = (IF include_visited THEN <<source>> ELSE NoVisitedNodes)
        /\ [result EXCEPT !.algorithm_used = BFS] = BFS_trivial(source, include_visited)

\* C9 witness: Dijkstra answered (x, x) with include_visited set, for a node
\* x that has a neighbor other than itself.
C9_Witness ==
    /\ Done /\ algorithm = DIJKSTRA /\ source = target /\ include_visited
    /\ \E i \in 1..Len(adjacency_list[source]) : adjacency_list[source][i][1] # source

\* C10: if the target is in the graph but no path leads from the source to
\* it, find_shortest_path returns exists = false, distance = +infinity and
\* path = [], for every algorithm.
C10_Unreachable ==
    (Done /\ ~Reachable(graph, source, target)) =>
        /\ ~result.exists
        /\ result.distance = Inf
        /\ result.path = <<>>

\* C10 witness: A* answered a query on a directed graph whose only edge at
\* the target leaves it, towards the source.
C10_Witness ==
    /\ Done /\ algorithm = ASTAR /\ graph.directed
    /\ ~Reachable(graph, source, target)
    /\ \E a \in Arcs(graph) : a[1] = target /\ a[2] = source
    /\ ~\E a \in Arcs(graph) : a[2] = target

\* C11: a call of find_shortest_path whose source or target is not a graph
\* node does not return a path: it ends either with exists = false or with
\* the signal of an unknown node (the only signal the code has is the
\* KeyError of the failed lookup, counted here as that signal), and the three
\* algorithms end the same call in the same one of these two ways.
C11_UniformUnknownNodePolicy ==
    (Ended /\ (source \notin NodeSet(graph) \/ target \notin NodeSet(graph))) =>
        /\ Outcome(result) \in {"not_found", "KeyError"}
        /\ \A a \in AlgorithmType :
              Outcome(find_shortest_path(a, graph, source, target, include_visited))
                  = Outcome(result)

\* C12: on every graph, directed or undirected, get_connected_components
\* returns a partition of the node set: the sets returned are non-empty,
\* pairwise disjoint, and their union is the set of graph nodes.
C12_ComponentsPartition ==
    pc = "components" =>
        /\ \A i \in 1..Len(result) : result[i] # {}
        /\ \A i \in 1..Len(result), j \in 1..Len(result) :
              i # j => result[i] \cap result[j] = {}
        /\ UNION {result[i] : i \in 1..Len(result)} = NodeSet(graph)

\* C13: the adjacency list an algorithm constructor builds has exactly the
\* graph nodes as keys; the list of a node holds, in edge order, the entry
\* (b, w) for every edge (a, b, w) leaving it and, if and only if the graph is
\* undirected, the entry (a, w) for every edge (a, b, w) entering it (so the
\* empty list for a node without edges); the Dijkstra and A* builders give
\* the same lists and the BFS builder the same lists without the weights.
C13_AdjacencyList ==
    /\ DOMAIN adjacency_list = NodeSet(graph)
    /\ \A n \in NodeSet(graph) :
          adjacency_list[n] = IF algorithm = BFS
                              THEN NeighboursOf(EntriesOf(graph, n, 1))
                              ELSE EntriesOf(graph, n, 1)
    /\ AStar_build_adjacency_list(graph) = Dijkstra_build_adjacency_list(graph)
    /\ DOMAIN BFS_build_adjacency_list(graph) = NodeSet(graph)
    /\ \A n \in NodeSet(graph) :
          BFS_build_adjacency_list(graph)[n]
              = NeighboursOf(Dijkstra_build_adjacency_list(graph)[n])

\* C13 witness: an instance on an undirected graph with a self-loop and a
\* node without edges: the node of the loop has the loop twice in its list
C13_Witness ==
    /\ ~graph.directed
    /\ \E n \in NodeSet(graph) : adjacency_list[n] = <<>>
    /\ \E i \in 1..Len(graph.edges) :
          /\ graph.edges[i].from_node = graph.edges[i].to_node
          /\ Len(adjacency_list[graph.edges[i].from_node]) >= 2

\* C14: for BFS and for Dijkstra, find_all_shortest_paths(s) returns a map
\* with exactly one entry per graph node, and the entry of every node t is
\* the distance find_shortest_path(s, t) of the same algorithm reports: 0 for
\* t = s and infinity for a node that cannot be reached.
C14_AllPathsAgree ==
    pc = "all" =>
        /\ DOMAIN result = NodeSet(graph)
        /\ result[source] = 0
        /\ \A t \in NodeSet(graph) :
              /\ result[t] = find_shortest_path(algorithm, graph, source, t, FALSE).distance
              /\ ~Reachable(graph, source, t) => result[t] = Inf

\* C14 witness: a map with a node that is not reached and a node two or more
\* away from the source
C14_Witness ==
    /\ pc = "all"
    /\ \E t \in NodeSet(graph) : result[t] = Inf
    /\ \E t \in NodeSet(graph) : result[t] # Inf /\ result[t] >= 2

\* C15: get_algorithm_recommendations returns primary BFS with Dijkstra among
\* the alternatives when every edge weight differs from 1.0 by less than 1e-9
\* (so also when there is no edge), and primary Dijkstra with A* among the
\* alternatives otherwise; A* is among the alternatives when the graph has
\* more than 1000 nodes; the alternatives never repeat an algorithm and never
\* hold the primary.
C15_Recommendations ==
    pc = "recommended" =>
        LET alts == result.alternatives
            has(a) == \E k \in 1..Len(alts) : alts[k] = a
            near_one == \A i \in 1..Len(graph.edges) :
                            abs(graph.edges[i].weight - FineOne) <= FineTolerance
        IN  /\ near_one => result.primary = BFS /\ has(DIJKSTRA)
            /\ ~near_one => result.primary = DIJKSTRA /\ has(ASTAR)
            /\ Len(graph.nodes) > LargeNodeCount => has(ASTAR)
            /\ \A j \in 1..Len(alts), k \in 1..Len(alts) : j # k => alts[j] # alts[k]
            /\ ~has(result.primary)

\* C15 witness: a graph of more than 1000 nodes whose weights are within the
\* tolerance of 1.0 without all being 1.0: BFS, with Dijkstra and A*
C15_Witness ==
    /\ pc = "recommended"
    /\ Len(graph.nodes) > LargeNodeCount
    /\ \E i \in 1..Len(graph.edges) : graph.edges[i].weight # FineOne
    /\ result.primary = BFS
    /\ result.alternatives = <<DIJKSTRA, ASTAR>>

\* C16: benchmark_algorithms returns a map whose keys are among dijkstra, bfs
\* and astar; an algorithm is a key exactly when its own run on the query
\* ends without an exception, and its entry is then the result of that run,
\* whatever became of the runs of the other algorithms.
C16_BenchmarkIsolatesFailures ==
    pc = "benchmarked" =>
        /\ DOMAIN result \subseteq AlgorithmType
        /\ \A a \in AlgorithmType :
              LET alone == find_shortest_path(a, graph, source, target, FALSE)
              IN  /\ a \in DOMAIN result <=> Outcome(alone) # "KeyError"
                  /\ a \in DOMAIN result => result[a] = alone

\* C16 witness: a benchmark in which Dijkstra, run first, and A*, run last,
\* fail, and the result of BFS is returned
C16_Witness ==
    /\ pc = "benchmarked"
    /\ DOMAIN result = {BFS}
    /\ ~result[BFS].exists

\* C17: of the calls of find_shortest_path and find_all_shortest_paths in
\* progress on one instance, their iterations interleaved in any order, each
\* returns what the same call returns when it runs alone (path, distance,
\* exists, visited count and nodes; the map of distances), and the adjacency
\* list and the coordinate map stay those the constructor built from the
\* graph.
C17_CallsIndependent ==
    /\ adjacency_list = create_algorithm(algorithm, graph)
    /\ node_coordinates = AStar_extract_coordinates(graph)
    /\ \A i \in DOMAIN calls :
          calls[i].pc \in {"done", "raised"} =>
              calls[i].result =
                  IF calls[i].method = FIND_SHORTEST_PATH
                  THEN find_shortest_path(algorithm, graph, calls[i].source,
                                          calls[i].target, calls[i].include_visited)
                  ELSE IF algorithm = DIJKSTRA
                  THEN Dijkstra_find_all_shortest_paths(
                           graph, Dijkstra_build_adjacency_list(graph), calls[i].source)
                  ELSE BFS_find_all_shortest_paths(
                           graph, BFS_build_adjacency_list(graph), calls[i].source)

\* C17 witness: a call has returned a path of three nodes while a call from
\* another source is in the middle of its loop
C17_Witness ==
    /\ DOMAIN calls # {}
    /\ \E i \in DOMAIN calls, j \in DOMAIN calls :
          /\ calls[i].pc = "done" /\ calls[i].method = FIND_SHORTEST_PATH
          /\ Len(calls[i].result.path) >= 3
          /\ calls[j].pc = "loop" /\ Looping(calls[j])
          /\ calls[j].source # calls[i].source
          /\ calls[j].st # (IF calls[j].method = FIND_SHORTEST_PATH
                            THEN StartShortestPath(calls[j].source, calls[j].target,
                                                   calls[j].include_visited).st
                            ELSE StartAllShortestPaths(calls[j].source).st)

\* C18: when the Euclidean heuristic of the coordinates given is admissible
\* and is not zero for every node on the way to the target, A* reports a
\* visited_nodes_count for (s, t) that is at most the one Dijkstra reports
\* for (s, t).
C18_AStarVisitsNoMore ==
    (Done /\ algorithm = ASTAR) =>
        \/ result.visited_nodes_count
               <= find_shortest_path(DIJKSTRA, graph, source, target, FALSE).visited_nodes_count
        \/ \A n \in NodeSet(graph) :
               AStar_euclidean_distance(node_coordinates, n, target) = 0
        \/ ~Admissible(graph, node_coordinates)

\* C19: the validation of the algorithm choice is advisory: for every graph
\* and each of BFS, Dijkstra and A*, _validate_algorithm_choice raises
\* nothing, and calculate_shortest_path returns the path, distance and exists
\* that find_shortest_path of that algorithm returns when called directly,
\* also for BFS on a graph with weights other than 1.
C19_ValidationAdvisory ==
    pc = "calculated" =>
        /\ ~validate_algorithm_choice(graph, algorithm).raised
        /\ result # ValueError
        /\ LET direct == find_shortest_path(algorithm, graph, source, target,
                                            include_visited)
           IN  /\ result.path = direct.path
               /\ result.distance = direct.distance
               /\ result.exists = direct.exists

\* C19 witness: BFS chosen for a graph with a weight other than 1: the
\* warning is logged and the hop count of a path heavier than it is returned
C19_Witness ==
    /\ pc = "calculated"
    /\ algorithm = BFS
    /\ ~UnitWeights(graph)
    /\ validate_algorithm_choice(graph, algorithm).logged = <<"warning">>
    /\ result.exists
    /\ result.distance < MinWeight(graph, source, target)

\* C20: A* re-inserts as Dijkstra does: once relaxing an edge has lowered the
\* g-score of a node that is not closed, the open set holds an entry for the
\* node with the improved f-score and g-score, also when it held an older
\* entry for the node already; so every node that is reached and not closed
\* has an open-set entry made from its best known g-score, at which it will
\* be popped.
C20_AStarReinserts ==
    (pc = "loop" /\ algorithm = ASTAR) =>
        \A n \in DOMAIN st.g_score :
            (n \notin st.closed_set /\ st.g_score[n] # Inf) =>
                \E k \in 1..Len(st.open_set) :
                    st.open_set[k] = <<st.f_score[n], st.g_score[n], n>>

\* C21: BFS stops at the first discovery of the target: once the target is in
\* visited, path_found is set and the target is the node enqueued last (and
\* the last of visited_order when diagnostics are requested); the next step
\* is the return, which marks and dequeues nothing more; so a found target
\* is the last element of visited_nodes.
C21_BFSStopsAtTarget ==
    /\ []((algorithm = BFS /\ pc \in {"loop", "done"} /\ source # target
             /\ target \in st.visited) =>
            /\ st.path_found
            /\ st.queue # <<>> /\ st.queue[Len(st.queue)] = target
            /\ include_visited =>
                   st.visited_order[Len(st.visited_order)] = target)
    /\ []((algorithm = BFS /\ pc = "done" /\ result.exists /\ include_visited) =>
            result.visited_nodes[Len(result.visited_nodes)] = target)
    /\ [][(algorithm = BFS /\ pc = "loop" /\ target \in st.visited) =>
            /\ st' = st
            /\ pc' = "done"
            /\ result'.visited_nodes_count = Cardinality(st.visited)]_vars

\* a BFS run that found the target while nodes were still waiting in the
\* queue and others were never reached
C21_Witness ==
    /\ algorithm = BFS /\ pc = "done" /\ source # target /\ include_visited
    /\ result.exists
    /\ Len(st.queue) >= 2
    /\ Len(result.visited_nodes) >= 3
    /\ \E n \in NodeSet(graph) : n \notin st.visited /\ Reachable(graph, source, n)

\* C22: in Dijkstra and in A* no node is settled after the target: a closed
\* target ends the loop (the next step is the return), a reachable target is
\* closed when the search returns and is the node closed last, the iteration
\* that closes the target relaxes none of its edges, and a node popped when
\* already closed is skipped, so no node is closed twice.
C22_NoSettleAfterTarget ==
    /\ []((Searching /\ target \in Closed(st)) => st.broke)
    /\ []((Searching /\ pc = "done" /\ Reachable(graph, source, target)) =>
            target \in Closed(st))
    /\ []((Searching /\ include_visited) =>
            /\ NoDuplicates(st.visited_order)
            /\ Len(st.visited_order) = Cardinality(Closed(st))
            /\ target \in Closed(st) =>
                   st.visited_order[Len(st.visited_order)] = target)
    /\ [][(Searching /\ pc = "loop") =>
            /\ target \in Closed(st) => (st' = st /\ pc' = "done")
            /\ (target \notin Closed(st) /\ target \in Closed(st')) =>
                   /\ Closed(st') = Closed(st) \cup {target}
                   /\ Tentative(st') = Tentative(st)
                   /\ st'.previous = st.previous
                   /\ Heap(st') = heappop(Heap(st)).heap
            /\ (pc' = "loop" /\ TopNode(Heap(st)) \in Closed(st)) =>
                   /\ Closed(st') = Closed(st)
                   /\ st'.visited_order = st.visited_order
            /\ (pc' = "loop" /\ TopNode(Heap(st)) \notin Closed(st)) =>
                   Closed(st') = Closed(st) \cup {TopNode(Heap(st))}]_vars

\* a search that closed the target while the heap still held entries and a
\* reachable node with an edge from the target was never closed
C22_Witness ==
    /\ Searching /\ pc = "done" /\ source # target /\ include_visited
    /\ result.exists /\ st.broke
    /\ Heap(st) # <<>>
    /\ \E n \in NodeSet(graph) :
           /\ n \notin Closed(st)
           /\ \E a \in Arcs(graph) : a[1] = target /\ a[2] = n

\* C23: for every algorithm and query, the result has visited_nodes exactly
\* when include_visited is true, and then visited_nodes has no node twice,
\* starts with the source and is as long as visited_nodes_count says.
C23_VisitedNodes ==
    pc = "done" =>
        /\ (result.visited_nodes # NoVisitedNodes) <=> include_visited
        /\ include_visited =>
               /\ NoDuplicates(result.visited_nodes)
               /\ result.visited_nodes # <<>>
               /\ result.visited_nodes[1] = source
               /\ Len(result.visited_nodes) = result.visited_nodes_count

\* diagnostics of a search that visited three nodes or more, though not
\* every node, on a graph with four arcs or more
C23_Witness ==
    /\ pc = "done" /\ include_visited /\ source # target
    /\ Len(result.visited_nodes) >= 3
    /\ result.visited_nodes_count < Len(graph.nodes)
    /\ Cardinality(Arcs(graph)) >= 4

\* C24: the constructor of PathResult enforces the consistency rules:
\* exists = true with an empty path is rejected, exists = false with a
\* non-empty path is rejected, and with exists = false the distance of the
\* value constructed is +infinity whatever distance was handed in.
C24_PathResultEnforces ==
    pc = "constructed" =>
        /\ (st.exists /\ st.path = <<>>) => result = ValidationError
        /\ (~st.exists /\ st.path # <<>>) => result = ValidationError
        /\ (~st.exists /\ result # ValidationError) => result.distance = Inf

\* C25: Dijkstra settles nodes in non-decreasing order of distance, in
\* find_shortest_path and in find_all_shortest_paths: the entry about to be
\* popped for a node that is not settled carries distances[node], which is
\* the true shortest distance from the source and is no less than the
\* distance of any settled node; the distance of a settled node is the true
\* shortest distance in every later state, so it never changes.
C25_SettledInOrder ==
    (algorithm = DIJKSTRA /\ pc \in {"loop", "done", "loop_all", "done_all"}) =>
        \A true \in {Relaxed(Arcs(graph),
                              [n \in NodeSet(graph) |-> IF n = source THEN 0 ELSE Inf],
                              FALSE, Len(graph.nodes))} :
        LET top  == heappop(st.pq).item
            popping == /\ pc \in {"loop", "loop_all"} /\ st.pq # <<>>
                       /\ pc = "loop" => ~st.broke
        IN  /\ \A n \in st.visited : st.distances[n] = true[n]
            /\ (popping /\ top[2] \notin st.visited) =>
                   /\ top[1] = st.distances[top[2]]
                   /\ top[1] = true[top[2]]
                   /\ \A n \in st.visited : st.distances[n] <= top[1]
            /\ (pc \in {"loop", "done"} /\ include_visited) =>
                   \A i, j \in 1..Len(st.visited_order) :
                       i < j => st.distances[st.visited_order[i]]
                                   <= st.distances[st.visited_order[j]]
            /\ pc = "done_all" => result = true

\* find_all_shortest_paths about to pop a stale entry (its node is settled)
\* after settling three nodes at three different distances
C25_Witness ==
    /\ pc = "loop_all" /\ st.pq # <<>>
    /\ heappop(st.pq).item[2] \in st.visited
    /\ Cardinality(st.visited) >= 3
    /\ Cardinality({st.distances[n] : n \in st.visited}) >= 3

\* C26: find_shortest_path of each algorithm terminates on every graph,
\* cycles, self-loops and parallel edges included: a call in its loop leads
\* to the return, and the path returned has no node twice (the walk over
\* previous has reached the source), starting at the source and ending at
\* the target when a path exists.
C26_Terminates ==
    /\ (pc = "loop") ~> (pc = "done")
    /\ [](pc = "done" =>
            /\ NoDuplicates(result.path)
            /\ Len(result.path) <= Len(graph.nodes)
            /\ result.exists =>
                   /\ result.path # <<>>
                   /\ result.path[1] = source
                   /\ result.path[Len(result.path)] = target)

\* a call that returned a path of three nodes on a graph with a cycle
\* through the source
C26_Witness ==
    /\ pc = "done" /\ result.exists /\ Len(result.path) >= 3
    /\ \E a \in Arcs(graph), b \in Arcs(graph) :
           /\ a[1] = source /\ a[2] # source
           /\ b[1] = a[2] /\ b[2] = source

\* C27: include_visited does not influence the search: the result of a call
\* has the path, distance, exists and visited_nodes_count of the same call
\* made with the other value of the flag.
C27_FlagDoesNotInfluence ==
    pc = "done" =>
        LET other == find_shortest_path(algorithm, graph, source, target,
                                        ~include_visited)
        IN  /\ other # KeyError
            /\ result.path = other.path
            /\ result.distance = other.distance
            /\ result.exists = other.exists
            /\ result.visited_nodes_count = other.visited_nodes_count

\* a call without diagnostics that found a path of three nodes and stopped
\* before visiting every node
C27_Witness ==
    /\ pc = "done" /\ ~include_visited
    /\ result.exists /\ Len(result.path) = 3
    /\ result.visited_nodes = NoVisitedNodes
    /\ result.visited_nodes_count < Len(graph.nodes)

\* C28: the two unit-weight tests agree on every graph:
\* get_algorithm_recommendations has BFS as primary exactly when
\* is_graph_suitable_for_bfs is true of the graph, also for the weights
\* nearest to the tolerance 1e-9 away from 1.0 on either side.
C28_UnitWeightTestsAgree ==
    pc = "recommended" =>
        (result.primary = BFS <=> BFS_is_graph_suitable_for_bfs(graph, FineOne))

\* a graph with one edge at the float nearest to 1.0 - 1e-9 from above
\* (within the tolerance) and no edge beyond the tolerance: both tests say
\* unit weights
C28_Witness ==
    /\ pc = "recommended"
    /\ \E i \in 1..Len(graph.edges) :
           graph.edges[i].weight = FineOne - FineTolerance
    /\ result.primary = BFS
    /\ BFS_is_graph_suitable_for_bfs(graph, FineOne)

\* C29: a request to the shortest-path or the benchmark endpoint whose
\* source or target is not a node of the stored graph is answered with
\* 400 validation_failed, and no search algorithm is run for it.
C29_AbsentNodeIsRejected ==
    (pc = "responded" /\ st.found
       /\ (source \notin NodeSet(graph) \/ target \notin NodeSet(graph))) =>
        /\ result.status_code = 400
        /\ result.error = "validation_failed"
        /\ st.engine = <<>>

\* C30: under every interleaving of get_graph and delete_graph calls, once
\* delete_graph(id) has returned True the key graph:<id> does not exist and
\* every get_graph(id) called after that return has returned None.
C30_DeletionIsFinal ==
    (pc = "stored" /\ DeleteReturnedTrue) =>
        /\ st.graph_key = <<>>
        /\ \A i \in 1..Len(result) :
              (result[i].op = "get_graph" /\ result[i].after_delete) =>
                  result[i].ret = <<>>

====
